---------------------------- MODULE Spec2Model ----------------------------
(***************************************************************************)
(* Model of protobuf-edition-lsp: the lexer, the recursive-descent parser, *)
(* the semantic validator, compute_diagnostics, compute_completions,       *)
(* compute_hover, the document store and the document notifications of the *)
(* language server.                                                        *)
(*                                                                         *)
(* Conventions.  A text is a sequence of one-character strings; a Rust     *)
(* String is the same.  Rust positions are 0-based: the character at Rust  *)
(* index p is input[p + 1].  A Result is a record with an err field, which *)
(* is NoError for Ok.  The Debug and Display renderings of a token or an   *)
(* error are injective on the values used here and are modelled by the     *)
(* rendered value itself.                                                  *)
(***************************************************************************)
EXTENDS Integers, Sequences, FiniteSets, TLC

(***************************************************************************)
(* Characters                                                              *)
(***************************************************************************)
Whitespace == {" ", "\n", "\t", "\r"}

Digits == {"0", "1", "2", "3", "4", "5", "6", "7", "8", "9"}

\* char::is_numeric: the ASCII digits and other Unicode numerics, of which
\* the superscript two stands for all.
Numeric == Digits \cup {"^2"}

\* char::is_alphabetic, restricted to the ASCII letters.
Alphabetic ==
    {"a", "b", "c", "d", "e", "f", "g", "h", "i", "j", "k", "l", "m",
     "n", "o", "p", "q", "r", "s", "t", "u", "v", "w", "x", "y", "z",
     "A", "B", "C", "D", "E", "F", "G", "H", "I", "J", "K", "L", "M",
     "N", "O", "P", "Q", "R", "S", "T", "U", "V", "W", "X", "Y", "Z"}

Alphanumeric == Alphabetic \cup Numeric

(***************************************************************************)
(* Tokens and errors                                                       *)
(***************************************************************************)
Tok(k) == [kind |-> k, text |-> <<>>]

TokV(k, s) == [kind |-> k, text |-> s]

Eof == Tok("Eof")

\* The text an error carries: a token's Debug rendering is the token, and a
\* character or a literal is rendered as a Text.
Text(s) == [kind |-> "", text |-> s]

NoError == [type |-> "None", expected |-> "", found |-> Text(<<>>)]

UnexpectedToken(f) == [type |-> "UnexpectedToken", expected |-> "", found |-> f]

Expected(e, f) == [type |-> "Expected", expected |-> e, found |-> f]

UnterminatedString ==
    [type |-> "UnterminatedString", expected |-> "", found |-> Text(<<>>)]

InvalidNumber(s) == [type |-> "InvalidNumber", expected |-> "", found |-> Text(s)]

\* The keyword table of read_identifier.
Keyword(identifier) ==
    CASE identifier = <<"s","y","n","t","a","x">> -> "Syntax"
      [] identifier = <<"e","d","i","t","i","o","n">> -> "Edition"
      [] identifier = <<"p","a","c","k","a","g","e">> -> "Package"
      [] identifier = <<"i","m","p","o","r","t">> -> "Import"
      [] identifier = <<"p","u","b","l","i","c">> -> "Public"
      [] identifier = <<"w","e","a","k">> -> "Weak"
      [] identifier = <<"m","e","s","s","a","g","e">> -> "Message"
      [] identifier = <<"e","n","u","m">> -> "Enum"
      [] identifier = <<"s","e","r","v","i","c","e">> -> "Service"
      [] identifier = <<"r","p","c">> -> "Rpc"
      [] identifier = <<"r","e","t","u","r","n","s">> -> "Returns"
      [] identifier = <<"s","t","r","e","a","m">> -> "Stream"
      [] identifier = <<"o","p","t","i","o","n","a","l">> -> "Optional"
      [] identifier = <<"r","e","q","u","i","r","e","d">> -> "Required"
      [] identifier = <<"r","e","p","e","a","t","e","d">> -> "Repeated"
      [] identifier = <<"o","n","e","o","f">> -> "Oneof"
      [] identifier = <<"o","p","t","i","o","n">> -> "Option"
      [] identifier = <<"t","r","u","e">> -> "True"
      [] identifier = <<"f","a","l","s","e">> -> "False"
      [] OTHER -> "Identifier"

(***************************************************************************)
(* Lexer                                                                   *)
(***************************************************************************)
LexOk(t, p) == [err |-> NoError, tok |-> t, pos |-> p]

LexErr(e, p) == [err |-> e, tok |-> Eof, pos |-> p]

\* Variant of skip_line_comment that ends the comment at any whitespace
\* instead of the end of the line.
RECURSIVE skip_line_comment_to_whitespace(_, _)
skip_line_comment_to_whitespace(input, position) ==
    IF position < Len(input) /\ input[position + 1] \notin Whitespace
    THEN skip_line_comment_to_whitespace(input, position + 1)
    ELSE position

RECURSIVE skip_line_comment(_, _)
skip_line_comment(input, position) ==
    IF position < Len(input) /\ input[position + 1] # "\n"
    THEN skip_line_comment(input, position + 1)
    ELSE position

RECURSIVE skip_block_comment(_, _)
skip_block_comment(input, position) ==
    IF position + 1 < Len(input)
    THEN IF input[position + 1] = "*" /\ input[position + 2] = "/"
         THEN position + 2
         ELSE skip_block_comment(input, position + 1)
    ELSE position

RECURSIVE skip_whitespace_and_comments(_, _)
skip_whitespace_and_comments(input, position) ==
    IF position >= Len(input) THEN position
    ELSE LET ch == input[position + 1]
             hasNext == position + 1 < Len(input)
         IN  IF ch \in Whitespace
             THEN skip_whitespace_and_comments(input, position + 1)
             ELSE IF ch = "/" /\ hasNext /\ input[position + 2] = "/"
             THEN skip_whitespace_and_comments(
                      input, skip_line_comment(input, position + 2))
             ELSE IF ch = "/" /\ hasNext /\ input[position + 2] = "*"
             THEN skip_whitespace_and_comments(
                      input, skip_block_comment(input, position + 2))
             ELSE position

Unescape(ch) ==
    CASE ch = "n" -> "\n"
      [] ch = "r" -> "\r"
      [] ch = "t" -> "\t"
      [] OTHER -> ch

RECURSIVE read_string_loop(_, _, _)
read_string_loop(input, position, value) ==
    IF position >= Len(input) THEN LexErr(UnterminatedString, position)
    ELSE LET ch == input[position + 1]
         IN  IF ch = "\""
             THEN LexOk(TokV("StringLiteral", value), position + 1)
             ELSE IF ch = "\\"
             THEN IF position + 1 >= Len(input)
                  THEN LexErr(UnterminatedString, position + 1)
                  ELSE read_string_loop(input, position + 2,
                           Append(value, Unescape(input[position + 2])))
             ELSE read_string_loop(input, position + 1, Append(value, ch))

read_string(input, position) == read_string_loop(input, position + 1, <<>>)

RECURSIVE read_identifier_loop(_, _, _)
read_identifier_loop(input, position, identifier) ==
    IF position < Len(input) /\ input[position + 1] \in Alphanumeric \cup {"_"}
    THEN read_identifier_loop(input, position + 1,
             Append(identifier, input[position + 1]))
    ELSE LET k == Keyword(identifier)
         IN  LexOk(IF k = "Identifier" THEN TokV(k, identifier) ELSE Tok(k),
                   position)

\* Variant of read_identifier that leaves the cursor where the identifier
\* starts.
read_identifier_peek(input, position) ==
    [read_identifier_loop(input, position, <<>>) EXCEPT !.pos = position]

read_identifier(input, position) == read_identifier_loop(input, position, <<>>)

RECURSIVE read_number_loop(_, _, _)
read_number_loop(input, position, number) ==
    IF position < Len(input) /\ input[position + 1] \in Numeric \cup {"."}
    THEN read_number_loop(input, position + 1,
             Append(number, input[position + 1]))
    ELSE LexOk(TokV("NumberLiteral", number), position)

read_number(input, position) ==
    IF input[position + 1] = "-"
    THEN read_number_loop(input, position + 1, <<"-">>)
    ELSE read_number_loop(input, position, <<>>)

Symbol(ch) ==
    CASE ch = "{" -> "LeftBrace"
      [] ch = "}" -> "RightBrace"
      [] ch = "(" -> "LeftParen"
      [] ch = ")" -> "RightParen"
      [] ch = "[" -> "LeftBracket"
      [] ch = "]" -> "RightBracket"
      [] ch = ";" -> "Semicolon"
      [] ch = "," -> "Comma"
      [] ch = "=" -> "Equals"
      [] ch = "." -> "Dot"
      [] OTHER -> ""

\* The match of Lexer::next_token on the character at the cursor p, which is
\* past the whitespace and the comments.
read_token(input, p) ==
    IF p >= Len(input) THEN LexOk(Eof, p)
    ELSE IF input[p + 1] = "\"" THEN read_string(input, p)
    ELSE IF Symbol(input[p + 1]) # ""
    THEN LexOk(Tok(Symbol(input[p + 1])), p + 1)
    ELSE IF input[p + 1] \in Alphabetic \cup {"_"} THEN read_identifier(input, p)
    ELSE IF input[p + 1] \in Numeric \cup {"-"} THEN read_number(input, p)
    ELSE LexErr(UnexpectedToken(Text(<<input[p + 1]>>)), p)

\* Lexer::next_token from the cursor `position`: the token or the error, and
\* the cursor afterwards.
next_token(input, position) ==
    CHOOSE r \in {read_token(input, p) :
                  p \in {skip_whitespace_and_comments(input, position)}} : TRUE

(***************************************************************************)
(* Numbers.  A u32 is kept as two 16-bit limbs, hi * 65536 + lo, so that   *)
(* the whole range 0 .. 4294967295 is representable.                       *)
(***************************************************************************)
Limb == 65536

U32(k) == [hi |-> k \div Limb, lo |-> k % Limb]

U32Le(a, b) == a.hi < b.hi \/ (a.hi = b.hi /\ a.lo <= b.lo)

DigitValue(ch) ==
    CASE ch = "0" -> 0 [] ch = "1" -> 1 [] ch = "2" -> 2 [] ch = "3" -> 3
      [] ch = "4" -> 4 [] ch = "5" -> 5 [] ch = "6" -> 6 [] ch = "7" -> 7
      [] ch = "8" -> 8 [] ch = "9" -> 9

\* str::parse::<u32> on the characters s[i..], with the value so far in acc:
\* every character must be an ASCII digit and the value must fit 32 bits.
RECURSIVE parse_u32_loop(_, _, _)
parse_u32_loop(s, i, acc) ==
    IF i > Len(s) THEN [ok |-> TRUE, value |-> acc]
    ELSE IF s[i] \notin Digits THEN [ok |-> FALSE, value |-> U32(0)]
    ELSE LET low == acc.lo * 10 + DigitValue(s[i])
             high == acc.hi * 10 + (low \div Limb)
         IN  IF high >= Limb THEN [ok |-> FALSE, value |-> U32(0)]
             ELSE parse_u32_loop(s, i + 1, [hi |-> high, lo |-> low % Limb])

\* Variant of parse_u32 that drops a leading minus sign.
parse_u32_magnitude(s) ==
    LET digits == IF s # <<>> /\ Head(s) = "-" THEN Tail(s) ELSE s
    IN  IF digits = <<>> THEN [ok |-> FALSE, value |-> U32(0)]
        ELSE parse_u32_loop(digits, 1, U32(0))

parse_u32(s) ==
    IF s = <<>> THEN [ok |-> FALSE, value |-> U32(0)]
    ELSE parse_u32_loop(s, 1, U32(0))

RECURSIVE StripLeadingZeros(_)
StripLeadingZeros(s) ==
    IF s # <<>> /\ Head(s) = "0" THEN StripLeadingZeros(Tail(s)) ELSE s

RECURSIVE StripTrailingZeros(_)
StripTrailingZeros(s) ==
    IF s # <<>> /\ s[Len(s)] = "0"
    THEN StripTrailingZeros(SubSeq(s, 1, Len(s) - 1))
    ELSE s

\* str::parse::<f64> on a literal of read_number (an optional '-', then
\* numerics and dots): valid when the rest holds a digit, only ASCII digits
\* and at most one dot.  The value is the decimal it denotes, in canonical
\* form (-0 equals 0); rounding to 53 bits is not modelled.
parse_f64(s) ==
    LET neg == s # <<>> /\ Head(s) = "-"
        rest == IF neg THEN Tail(s) ELSE s
        dots == {i \in 1..Len(rest) : rest[i] = "."}
        valid == /\ \A i \in 1..Len(rest) : rest[i] \in Digits \cup {"."}
                 /\ Cardinality(dots) <= 1
                 /\ \E i \in 1..Len(rest) : rest[i] \in Digits
        dot == IF dots = {} THEN Len(rest) + 1 ELSE CHOOSE i \in dots : TRUE
        int == StripLeadingZeros(SubSeq(rest, 1, dot - 1))
        frac == StripTrailingZeros(SubSeq(rest, dot + 1, Len(rest)))
    IN  IF valid
        THEN [ok |-> TRUE,
              value |-> [neg |-> neg /\ (int # <<>> \/ frac # <<>>),
                         int |-> int, frac |-> frac]]
        ELSE [ok |-> FALSE, value |-> [neg |-> FALSE, int |-> <<>>, frac |-> <<>>]]

(***************************************************************************)
(* Parser.  The parser's state is the lexer's cursor and the lookahead     *)
(* token; each parse function returns an error, or the state afterwards    *)
(* and the value it built.                                                 *)
(***************************************************************************)
NoValue == <<>>

Ok(st, v) == [err |-> NoError, st |-> st, val |-> v]

Fail(e) == [err |-> e, st |-> [pos |-> 0, tok |-> Eof], val |-> NoValue]

IsErr(r) == r.err # NoError

None == [some |-> FALSE, v |-> <<>>]

Some(x) == [some |-> TRUE, v |-> x]

\* HashMap::insert
Insert(map, key, value) ==
    [k \in DOMAIN map \cup {key} |-> IF k = key THEN value ELSE map[k]]

EmptyMap == [k \in {} |-> NoValue]

\* What is left to parse: nothing once the lookahead is Eof, else the
\* characters after the cursor and the lookahead itself.
Remaining(input, st) ==
    IF st.tok = Eof THEN 0 ELSE Len(input) - st.pos + 1

\* An iteration of a parser loop that returned no error and consumed no
\* token: the loop would run it again in the same state, for ever.  The
\* model ends such a parse with the outcome Diverges.
Stalled(input, st, r) ==
    ~IsErr(r) /\ Remaining(input, r.st) >= Remaining(input, st)

Diverges == [type |-> "Diverges", expected |-> "", found |-> Text(<<>>)]

\* Sequencing.  Bind(v, F) is F applied to the value of v, and Then(v, F) is
\* Rust's `?`: the error of v, or F applied to v's success.
Bind(v, F(_)) == CHOOSE r \in {F(y) : y \in {v}} : TRUE

Then(v, F(_)) == Bind(v, LAMBDA r : IF IsErr(r) THEN r ELSE F(r))

\* Parser::new: the first token is read here, and unwrap_or turns a lexer
\* error into Eof.
new(input) ==
    Bind(next_token(input, 0), LAMBDA r :
        [pos |-> r.pos, tok |-> IF r.err = NoError THEN r.tok ELSE Eof])

\* Variant of advance that takes the next token and leaves the lexer's
\* cursor where it was.
advance_keeps_cursor(input, st) ==
    Bind(next_token(input, st.pos), LAMBDA r :
        IF r.err # NoError THEN Fail(r.err)
        ELSE Ok([pos |-> st.pos, tok |-> r.tok], NoValue))

advance(input, st) ==
    Bind(next_token(input, st.pos), LAMBDA r :
        IF r.err # NoError THEN Fail(r.err)
        ELSE Ok([pos |-> r.pos, tok |-> r.tok], NoValue))

expect(input, st, expected) ==
    IF st.tok = Tok(expected) THEN advance(input, st)
    ELSE Fail(Expected(expected, st.tok))

\* The shape shared by parse_syntax and parse_edition:
\* keyword, '=', string literal, ';'.
\* Variant of parse_syntax and parse_edition that takes any token but Eof as
\* the declared value.
parse_string_declaration_any_value(input, st, keyword) ==
    Then(expect(input, st, keyword), LAMBDA r1 :
    Then(expect(input, r1.st, "Equals"), LAMBDA r2 :
    IF r2.st.tok = Eof
    THEN Fail(Expected("string literal", r2.st.tok))
    ELSE
    Then(advance(input, r2.st), LAMBDA r3 :
    Then(expect(input, r3.st, "Semicolon"), LAMBDA r4 :
    Ok(r4.st, r2.st.tok.text)))))

parse_string_declaration(input, st, keyword) ==
    Then(expect(input, st, keyword), LAMBDA r1 :
    Then(expect(input, r1.st, "Equals"), LAMBDA r2 :
    IF r2.st.tok.kind # "StringLiteral"
    THEN Fail(Expected("string literal", r2.st.tok))
    ELSE
    Then(advance(input, r2.st), LAMBDA r3 :
    Then(expect(input, r3.st, "Semicolon"), LAMBDA r4 :
    Ok(r4.st, r2.st.tok.text)))))

parse_syntax(input, st) == parse_string_declaration(input, st, "Syntax")

parse_edition(input, st) == parse_string_declaration(input, st, "Edition")

\* The loop of parse_package: identifiers joined by dots; a trailing dot is
\* kept in the name.
RECURSIVE parse_package_loop(_, _, _)
parse_package_loop(input, st, package_name) ==
    IF st.tok.kind # "Identifier" THEN Ok(st, package_name)
    ELSE
    Then(advance(input, st), LAMBDA r1 :
    IF r1.st.tok # Tok("Dot") THEN Ok(r1.st, package_name \o st.tok.text)
    ELSE
    Then(advance(input, r1.st), LAMBDA r2 :
    IF Stalled(input, st, r2) THEN Fail(Diverges)
    ELSE parse_package_loop(input, r2.st,
             Append(package_name \o st.tok.text, "."))))

parse_package(input, st) ==
    Then(expect(input, st, "Package"), LAMBDA r1 :
    Then(parse_package_loop(input, r1.st, <<>>), LAMBDA r2 :
    Then(expect(input, r2.st, "Semicolon"), LAMBDA r3 :
    Ok(r3.st, r2.val))))

\* The rest of parse_import once its modifier is read.
parse_import_path(input, st, public, weak) ==
    IF st.tok.kind # "StringLiteral"
    THEN Fail(Expected("string literal", st.tok))
    ELSE
    Then(advance(input, st), LAMBDA r1 :
    Then(expect(input, r1.st, "Semicolon"), LAMBDA r2 :
    Ok(r2.st, [type |-> "Import", path |-> st.tok.text,
               public |-> public, weak |-> weak])))

parse_import(input, st) ==
    Then(expect(input, st, "Import"), LAMBDA r1 :
    IF r1.st.tok = Tok("Public")
    THEN Then(advance(input, r1.st), LAMBDA r2 :
         parse_import_path(input, r2.st, TRUE, FALSE))
    ELSE IF r1.st.tok = Tok("Weak")
    THEN Then(advance(input, r1.st), LAMBDA r2 :
         parse_import_path(input, r2.st, FALSE, TRUE))
    ELSE parse_import_path(input, r1.st, FALSE, FALSE))

parse_option_value(input, st) ==
    IF st.tok.kind \notin {"StringLiteral", "NumberLiteral", "True", "False",
                           "Identifier"}
    THEN Fail(Expected("option value", st.tok))
    ELSE
    Bind(IF st.tok.kind = "NumberLiteral" THEN parse_f64(st.tok.text)
         ELSE [ok |-> TRUE, value |-> NoValue], LAMBDA n :
    IF ~n.ok THEN Fail(InvalidNumber(st.tok.text))
    ELSE
    Then(advance(input, st), LAMBDA r :
    Ok(r.st,
       CASE st.tok.kind = "StringLiteral" -> [type |-> "String", v |-> st.tok.text]
         [] st.tok.kind = "NumberLiteral" -> [type |-> "Number", v |-> n.value]
         [] st.tok.kind = "True" -> [type |-> "Bool", v |-> TRUE]
         [] st.tok.kind = "False" -> [type |-> "Bool", v |-> FALSE]
         [] st.tok.kind = "Identifier" ->
              [type |-> "Identifier", v |-> st.tok.text])))

parse_option(input, st) ==
    Then(expect(input, st, "Option"), LAMBDA r1 :
    IF r1.st.tok.kind # "Identifier"
    THEN Fail(Expected("option name", r1.st.tok))
    ELSE
    Then(advance(input, r1.st), LAMBDA r2 :
    Then(expect(input, r2.st, "Equals"), LAMBDA r3 :
    Then(parse_option_value(input, r3.st), LAMBDA r4 :
    Then(expect(input, r4.st, "Semicolon"), LAMBDA r5 :
    Ok(r5.st, [name |-> r1.st.tok.text, value |-> r4.val]))))))

parse_option_name(input, st) ==
    IF st.tok = Tok("LeftParen")
    THEN Then(advance(input, st), LAMBDA r1 :
         IF r1.st.tok.kind # "Identifier"
         THEN Fail(Expected("identifier", r1.st.tok))
         ELSE
         Then(advance(input, r1.st), LAMBDA r2 :
         Then(expect(input, r2.st, "RightParen"), LAMBDA r3 :
         Ok(r3.st, <<"(">> \o r1.st.tok.text \o <<")">>))))
    ELSE IF st.tok.kind = "Identifier"
    THEN Then(advance(input, st), LAMBDA r : Ok(r.st, st.tok.text))
    ELSE Fail(Expected("option name", st.tok))

\* The loop of parse_field_options: name '=' value, separated by commas.
RECURSIVE parse_field_options_loop(_, _, _)
parse_field_options_loop(input, st, options) ==
    Then(parse_option_name(input, st), LAMBDA r1 :
    Then(expect(input, r1.st, "Equals"), LAMBDA r2 :
    Then(parse_option_value(input, r2.st), LAMBDA r3 :
    IF r3.st.tok # Tok("Comma")
    THEN Ok(r3.st, Insert(options, r1.val, r3.val))
    ELSE
    Then(advance(input, r3.st), LAMBDA r4 :
    IF Stalled(input, st, r4) THEN Fail(Diverges)
    ELSE parse_field_options_loop(input, r4.st,
             Insert(options, r1.val, r3.val))))))

parse_field_options(input, st) ==
    Then(expect(input, st, "LeftBracket"), LAMBDA r1 :
    Then(parse_field_options_loop(input, r1.st, EmptyMap), LAMBDA r2 :
    Then(expect(input, r2.st, "RightBracket"), LAMBDA r3 :
    Ok(r3.st, r2.val))))

\* The tail shared by a field and an enum value: an optional bracketed
\* option list, then ';'.
parse_options_and_semicolon(input, st) ==
    Then(IF st.tok = Tok("LeftBracket") THEN parse_field_options(input, st)
         ELSE Ok(st, EmptyMap), LAMBDA r1 :
    Then(expect(input, r1.st, "Semicolon"), LAMBDA r2 :
    Ok(r2.st, r1.val)))

parse_field_label(input, st) ==
    IF st.tok.kind \notin {"Optional", "Required", "Repeated"}
    THEN Fail(Expected("field label", st.tok))
    ELSE Then(advance(input, st), LAMBDA r : Ok(r.st, st.tok.kind))

parse_field(input, st) ==
    IF st.tok.kind # "Identifier" THEN Fail(Expected("field type", st.tok))
    ELSE
    Then(advance(input, st), LAMBDA r1 :
    IF r1.st.tok.kind # "Identifier"
    THEN Fail(Expected("field name", r1.st.tok))
    ELSE
    Then(advance(input, r1.st), LAMBDA r2 :
    Then(expect(input, r2.st, "Equals"), LAMBDA r3 :
    IF r3.st.tok.kind # "NumberLiteral"
    THEN Fail(Expected("field number", r3.st.tok))
    ELSE
    Bind(parse_u32(r3.st.tok.text), LAMBDA n :
    IF ~n.ok THEN Fail(InvalidNumber(r3.st.tok.text))
    ELSE
    Then(advance(input, r3.st), LAMBDA r4 :
    Then(parse_options_and_semicolon(input, r4.st), LAMBDA r5 :
    Ok(r5.st, [name |-> r1.st.tok.text, field_type |-> st.tok.text,
               number |-> n.value, label |-> None,
               options |-> r5.val])))))))

RECURSIVE parse_oneof_loop(_, _, _)
parse_oneof_loop(input, st, fields) ==
    IF st.tok = Tok("RightBrace") THEN Ok(st, fields)
    ELSE
    Then(CASE st.tok.kind = "Identifier" ->
                Then(parse_field(input, st), LAMBDA f :
                Ok(f.st, Append(fields, f.val)))
           [] st.tok.kind = "Semicolon" ->
                Then(advance(input, st), LAMBDA a : Ok(a.st, fields))
           [] OTHER -> Fail(UnexpectedToken(st.tok)), LAMBDA r :
    IF Stalled(input, st, r) THEN Fail(Diverges)
    ELSE parse_oneof_loop(input, r.st, r.val))

parse_oneof(input, st) ==
    Then(expect(input, st, "Oneof"), LAMBDA r1 :
    IF r1.st.tok.kind # "Identifier"
    THEN Fail(Expected("oneof name", r1.st.tok))
    ELSE
    Then(advance(input, r1.st), LAMBDA r2 :
    Then(expect(input, r2.st, "LeftBrace"), LAMBDA r3 :
    Then(parse_oneof_loop(input, r3.st, <<>>), LAMBDA r4 :
    Then(expect(input, r4.st, "RightBrace"), LAMBDA r5 :
    Ok(r5.st, [name |-> r1.st.tok.text, fields |-> r4.val]))))))

I32Min == -2147483647 - 1

\* str::parse::<i32>: an optional '-', then ASCII digits whose value fits 32
\* bits; the magnitude is parsed as a u32 and compared with 2^31.
parse_i32(s) ==
    LET neg == s # <<>> /\ Head(s) = "-"
    IN  Bind(parse_u32(IF neg THEN Tail(s) ELSE s), LAMBDA m :
        IF ~m.ok THEN [ok |-> FALSE, value |-> 0]
        ELSE IF m.value.hi < 32768
        THEN [ok |-> TRUE,
              value |-> IF neg THEN -(m.value.hi * Limb + m.value.lo)
                        ELSE m.value.hi * Limb + m.value.lo]
        ELSE IF neg /\ m.value = [hi |-> 32768, lo |-> 0]
        THEN [ok |-> TRUE, value |-> I32Min]
        ELSE [ok |-> FALSE, value |-> 0])

\* The Identifier arm of parse_enum's loop: name '=' number [options] ';'.
parse_enum_value(input, st) ==
    Then(advance(input, st), LAMBDA r1 :
    Then(expect(input, r1.st, "Equals"), LAMBDA r2 :
    IF r2.st.tok.kind # "NumberLiteral"
    THEN Fail(Expected("enum value number", r2.st.tok))
    ELSE
    Bind(parse_i32(r2.st.tok.text), LAMBDA n :
    IF ~n.ok THEN Fail(InvalidNumber(r2.st.tok.text))
    ELSE
    Then(advance(input, r2.st), LAMBDA r3 :
    Then(parse_options_and_semicolon(input, r3.st), LAMBDA r4 :
    Ok(r4.st, [name |-> st.tok.text, number |-> n.value,
               options |-> r4.val]))))))

RECURSIVE parse_enum_loop(_, _, _)
parse_enum_loop(input, st, enum_def) ==
    IF st.tok = Tok("RightBrace") THEN Ok(st, enum_def)
    ELSE
    Then(CASE st.tok.kind = "Option" ->
                Then(parse_option(input, st), LAMBDA o :
                Ok(o.st, [enum_def EXCEPT !.options =
                             Insert(@, o.val.name, o.val.value)]))
           [] st.tok.kind = "Identifier" ->
                Then(parse_enum_value(input, st), LAMBDA v :
                Ok(v.st, [enum_def EXCEPT !.values = Append(@, v.val)]))
           [] st.tok.kind = "Semicolon" ->
                Then(advance(input, st), LAMBDA a : Ok(a.st, enum_def))
           [] OTHER -> Fail(UnexpectedToken(st.tok)), LAMBDA r :
    IF Stalled(input, st, r) THEN Fail(Diverges)
    ELSE parse_enum_loop(input, r.st, r.val))

parse_enum(input, st) ==
    Then(expect(input, st, "Enum"), LAMBDA r1 :
    IF r1.st.tok.kind # "Identifier"
    THEN Fail(Expected("enum name", r1.st.tok))
    ELSE
    Then(advance(input, r1.st), LAMBDA r2 :
    Then(expect(input, r2.st, "LeftBrace"), LAMBDA r3 :
    Then(parse_enum_loop(input, r3.st,
             [name |-> r1.st.tok.text, values |-> <<>>,
              options |-> EmptyMap]), LAMBDA r4 :
    Then(expect(input, r4.st, "RightBrace"), LAMBDA r5 :
    Ok(r5.st, r4.val))))))

RECURSIVE parse_message(_, _)
RECURSIVE parse_message_loop(_, _, _)
parse_message_loop(input, st, message) ==
    IF st.tok = Tok("RightBrace") THEN Ok(st, message)
    ELSE
    Then(CASE st.tok.kind = "Message" ->
                Then(parse_message(input, st), LAMBDA m :
                Ok(m.st, [message EXCEPT !.nested_messages = Append(@, m.val)]))
           [] st.tok.kind = "Enum" ->
                Then(parse_enum(input, st), LAMBDA e :
                Ok(e.st, [message EXCEPT !.nested_enums = Append(@, e.val)]))
           [] st.tok.kind = "Oneof" ->
                Then(parse_oneof(input, st), LAMBDA o :
                Ok(o.st, [message EXCEPT !.oneofs = Append(@, o.val)]))
           [] st.tok.kind = "Option" ->
                Then(parse_option(input, st), LAMBDA o :
                Ok(o.st, [message EXCEPT !.options =
                             Insert(@, o.val.name, o.val.value)]))
           [] st.tok.kind \in {"Optional", "Required", "Repeated"} ->
                Then(parse_field_label(input, st), LAMBDA l :
                Then(parse_field(input, l.st), LAMBDA f :
                Ok(f.st, [message EXCEPT !.fields =
                             Append(@, [f.val EXCEPT !.label = Some(l.val)])])))
           [] st.tok.kind = "Identifier" ->
                Then(parse_field(input, st), LAMBDA f :
                Ok(f.st, [message EXCEPT !.fields = Append(@, f.val)]))
           [] st.tok.kind = "Semicolon" ->
                Then(advance(input, st), LAMBDA a : Ok(a.st, message))
           [] OTHER -> Fail(UnexpectedToken(st.tok)), LAMBDA r :
    IF Stalled(input, st, r) THEN Fail(Diverges)
    ELSE parse_message_loop(input, r.st, r.val))

parse_message(input, st) ==
    Then(expect(input, st, "Message"), LAMBDA r1 :
    IF r1.st.tok.kind # "Identifier"
    THEN Fail(Expected("identifier", r1.st.tok))
    ELSE
    Then(advance(input, r1.st), LAMBDA r2 :
    Then(expect(input, r2.st, "LeftBrace"), LAMBDA r3 :
    Then(parse_message_loop(input, r3.st,
             [name |-> r1.st.tok.text, fields |-> <<>>, oneofs |-> <<>>,
              nested_messages |-> <<>>, nested_enums |-> <<>>,
              options |-> EmptyMap]), LAMBDA r4 :
    Then(expect(input, r4.st, "RightBrace"), LAMBDA r5 :
    Ok(r5.st, r4.val))))))

\* The option block of an rpc, after its '{'.
RECURSIVE parse_rpc_options_loop(_, _, _)
parse_rpc_options_loop(input, st, options) ==
    IF st.tok = Tok("RightBrace") THEN Ok(st, options)
    ELSE
    Then(CASE st.tok.kind = "Option" ->
                Then(parse_option(input, st), LAMBDA o :
                Ok(o.st, Insert(options, o.val.name, o.val.value)))
           [] st.tok.kind = "Semicolon" ->
                Then(advance(input, st), LAMBDA a : Ok(a.st, options))
           [] OTHER -> Fail(UnexpectedToken(st.tok)), LAMBDA r :
    IF Stalled(input, st, r) THEN Fail(Diverges)
    ELSE parse_rpc_options_loop(input, r.st, r.val))

\* [stream] type ')' of an rpc, after its '('; `what` names the type in the
\* error.
parse_rpc_type(input, st, what) ==
    Then(IF st.tok = Tok("Stream") THEN advance(input, st) ELSE Ok(st, NoValue),
         LAMBDA r1 :
    IF r1.st.tok.kind # "Identifier" THEN Fail(Expected(what, r1.st.tok))
    ELSE
    Then(advance(input, r1.st), LAMBDA r2 :
    Then(expect(input, r2.st, "RightParen"), LAMBDA r3 :
    Ok(r3.st, [type |-> r1.st.tok.text,
               streaming |-> st.tok = Tok("Stream")]))))

\* The end of an rpc: ';' or a block of options.
parse_rpc_body(input, st) ==
    IF st.tok = Tok("LeftBrace")
    THEN Then(advance(input, st), LAMBDA r1 :
         Then(parse_rpc_options_loop(input, r1.st, EmptyMap), LAMBDA r2 :
         Then(expect(input, r2.st, "RightBrace"), LAMBDA r3 :
         Ok(r3.st, r2.val))))
    ELSE Then(expect(input, st, "Semicolon"), LAMBDA r1 : Ok(r1.st, EmptyMap))

parse_rpc(input, st) ==
    Then(expect(input, st, "Rpc"), LAMBDA r1 :
    IF r1.st.tok.kind # "Identifier"
    THEN Fail(Expected("method name", r1.st.tok))
    ELSE
    Then(advance(input, r1.st), LAMBDA r2 :
    Then(expect(input, r2.st, "LeftParen"), LAMBDA r3 :
    Then(parse_rpc_type(input, r3.st, "request type"), LAMBDA r4 :
    Then(expect(input, r4.st, "Returns"), LAMBDA r5 :
    Then(expect(input, r5.st, "LeftParen"), LAMBDA r6 :
    Then(parse_rpc_type(input, r6.st, "response type"), LAMBDA r7 :
    Then(parse_rpc_body(input, r7.st), LAMBDA r8 :
    Ok(r8.st, [name |-> r1.st.tok.text,
               request_type |-> r4.val.type,
               response_type |-> r7.val.type,
               client_streaming |-> r4.val.streaming,
               server_streaming |-> r7.val.streaming,
               options |-> r8.val])))))))))

RECURSIVE parse_service_loop(_, _, _)
parse_service_loop(input, st, service) ==
    IF st.tok = Tok("RightBrace") THEN Ok(st, service)
    ELSE
    Then(CASE st.tok.kind = "Rpc" ->
                Then(parse_rpc(input, st), LAMBDA m :
                Ok(m.st, [service EXCEPT !.methods = Append(@, m.val)]))
           [] st.tok.kind = "Option" ->
                Then(parse_option(input, st), LAMBDA o :
                Ok(o.st, [service EXCEPT !.options =
                             Insert(@, o.val.name, o.val.value)]))
           [] st.tok.kind = "Semicolon" ->
                Then(advance(input, st), LAMBDA a : Ok(a.st, service))
           [] OTHER -> Fail(UnexpectedToken(st.tok)), LAMBDA r :
    IF Stalled(input, st, r) THEN Fail(Diverges)
    ELSE parse_service_loop(input, r.st, r.val))

parse_service(input, st) ==
    Then(expect(input, st, "Service"), LAMBDA r1 :
    IF r1.st.tok.kind # "Identifier"
    THEN Fail(Expected("service name", r1.st.tok))
    ELSE
    Then(advance(input, r1.st), LAMBDA r2 :
    Then(expect(input, r2.st, "LeftBrace"), LAMBDA r3 :
    Then(parse_service_loop(input, r3.st,
             [name |-> r1.st.tok.text, methods |-> <<>>,
              options |-> EmptyMap]), LAMBDA r4 :
    Then(expect(input, r4.st, "RightBrace"), LAMBDA r5 :
    Ok(r5.st, r4.val))))))

Statement(proto_file, r, statement) ==
    Ok(r.st, [proto_file EXCEPT !.statements = Append(@, statement)])

\* The loop of Parser::parse over the top-level statements.
RECURSIVE parse_loop(_, _, _)
parse_loop(input, st, proto_file) ==
    IF st.tok = Eof THEN Ok(st, proto_file)
    ELSE
    Then(CASE st.tok.kind = "Syntax" ->
                Then(parse_syntax(input, st), LAMBDA x :
                Ok(x.st, [proto_file EXCEPT !.syntax = Some(x.val)]))
           [] st.tok.kind = "Edition" ->
                Then(parse_edition(input, st), LAMBDA x :
                Ok(x.st, [proto_file EXCEPT !.edition = Some(x.val)]))
           [] st.tok.kind = "Package" ->
                Then(parse_package(input, st), LAMBDA x :
                Statement(proto_file, x, [type |-> "Package", name |-> x.val]))
           [] st.tok.kind = "Import" ->
                Then(parse_import(input, st), LAMBDA x :
                Statement(proto_file, x, x.val))
           [] st.tok.kind = "Message" ->
                Then(parse_message(input, st), LAMBDA x :
                Statement(proto_file, x, [type |-> "Message", message |-> x.val]))
           [] st.tok.kind = "Enum" ->
                Then(parse_enum(input, st), LAMBDA x :
                Statement(proto_file, x, [type |-> "Enum", enum |-> x.val]))
           [] st.tok.kind = "Service" ->
                Then(parse_service(input, st), LAMBDA x :
                Statement(proto_file, x, [type |-> "Service", service |-> x.val]))
           [] st.tok.kind = "Option" ->
                Then(parse_option(input, st), LAMBDA x :
                Statement(proto_file, x,
                          [type |-> "Option", name |-> x.val.name,
                           value |-> x.val.value]))
           [] st.tok.kind = "Semicolon" ->
                Then(advance(input, st), LAMBDA a : Ok(a.st, proto_file))
           [] OTHER -> Fail(UnexpectedToken(st.tok)), LAMBDA r :
    IF Stalled(input, st, r) THEN Fail(Diverges)
    ELSE parse_loop(input, r.st, r.val))

EmptyProtoFile == [syntax |-> None, edition |-> None, statements |-> <<>>]

\* Parser::parse
parse(input, st) == parse_loop(input, st, EmptyProtoFile)

\* parse_proto: [err, file], err = NoError for Ok(file).
parse_proto(input) ==
    Bind(new(input), LAMBDA parser :
    Bind(parse(input, parser), LAMBDA r :
    [err |-> r.err, file |-> IF IsErr(r) THEN EmptyProtoFile ELSE r.val]))

(***************************************************************************)
(* Validator.  A finding's message is the format string and the rendered   *)
(* arguments; line and column are always 0.  The state threaded through    *)
(* the walk is the Validator's two maps and the errors pushed so far.      *)
(***************************************************************************)
DigitChar(d) ==
    CASE d = 0 -> "0" [] d = 1 -> "1" [] d = 2 -> "2" [] d = 3 -> "3"
      [] d = 4 -> "4" [] d = 5 -> "5" [] d = 6 -> "6" [] d = 7 -> "7"
      [] d = 8 -> "8" [] d = 9 -> "9"

\* Display of a u32: its decimal digits.
RECURSIVE U32ToString(_)
U32ToString(n) ==
    LET t == (n.hi % 10) * Limb + n.lo
        q == [hi |-> n.hi \div 10, lo |-> t \div 10]
    IN  IF n.hi = 0 /\ n.lo < 10 THEN <<DigitChar(n.lo)>>
        ELSE Append(U32ToString(q), DigitChar(t % 10))

\* Display of an i32.
I32ToString(n) ==
    IF n = I32Min THEN <<"-">> \o U32ToString([hi |-> 32768, lo |-> 0])
    ELSE IF n < 0 THEN <<"-">> \o U32ToString(U32(-n))
    ELSE U32ToString(U32(n))

\* ValidationError::new
ValidationError(format, args) ==
    [message |-> [format |-> format, args |-> args], line |-> 0, column |-> 0]

ReservedMin == 19000

ReservedMax == 19999

\* Variant of InReservedRange with the upper limit excluded.
InReservedRangeExclusive(number) ==
    /\ U32Le(U32(ReservedMin), number)
    /\ U32Le(number, U32(ReservedMax))
    /\ number # U32(ReservedMax)

\* field.number >= 19000 && field.number <= 19999
InReservedRange(number) ==
    U32Le(U32(ReservedMin), number) /\ U32Le(number, U32(ReservedMax))

\* HashMap::entry(key).or_default()
Entry(map, key) == IF key \in DOMAIN map THEN map[key] ELSE {}

Push(s, cond, error) ==
    IF cond THEN [s EXCEPT !.errors = Append(@, error)] ELSE s

\* One iteration of validate_message's loop over the direct fields, with
\* field_numbers the set of the message's key.
validate_field(s, field_numbers, field, message) ==
    LET s1 == Push(s, field.number \in field_numbers,
                   ValidationError("Duplicate field number {} in message '{}'",
                       <<U32ToString(field.number), message.name>>))
        s2 == Push(s1, field.number = U32(0),
                   ValidationError(
                       "Field number cannot be 0 in field '{}' of message '{}'",
                       <<field.name, message.name>>))
        s3 == Push(s2, InReservedRange(field.number),
                   ValidationError(
                       "Field number {} is reserved for protocol buffer implementation in field '{}' of message '{}'",
                       <<U32ToString(field.number), field.name, message.name>>))
    IN  [s |-> s3, field_numbers |-> field_numbers \cup {field.number}]

RECURSIVE validate_fields(_, _, _, _)
validate_fields(s, field_numbers, message, i) ==
    IF i > Len(message.fields) THEN [s |-> s, field_numbers |-> field_numbers]
    ELSE LET r == validate_field(s, field_numbers, message.fields[i], message)
         IN  validate_fields(r.s, r.field_numbers, message, i + 1)

\* Variant of validate_oneof_field that checks the number and does not
\* record it.
validate_oneof_field_unrecorded(s, field_numbers, field, oneof, message) ==
    [s |-> Push(s, field.number \in field_numbers,
                ValidationError(
                    "Duplicate field number {} in oneof '{}' of message '{}'",
                    <<U32ToString(field.number), oneof.name, message.name>>)),
     field_numbers |-> field_numbers]

\* One iteration of the loop over a oneof's fields.
validate_oneof_field(s, field_numbers, field, oneof, message) ==
    [s |-> Push(s, field.number \in field_numbers,
                ValidationError(
                    "Duplicate field number {} in oneof '{}' of message '{}'",
                    <<U32ToString(field.number), oneof.name, message.name>>)),
     field_numbers |-> field_numbers \cup {field.number}]

RECURSIVE validate_oneof_fields(_, _, _, _, _)
validate_oneof_fields(s, field_numbers, oneof, message, i) ==
    IF i > Len(oneof.fields) THEN [s |-> s, field_numbers |-> field_numbers]
    ELSE LET r == validate_oneof_field(s, field_numbers, oneof.fields[i],
                                       oneof, message)
         IN  validate_oneof_fields(r.s, r.field_numbers, oneof, message, i + 1)

RECURSIVE validate_oneofs(_, _, _, _)
validate_oneofs(s, field_numbers, message, i) ==
    IF i > Len(message.oneofs) THEN [s |-> s, field_numbers |-> field_numbers]
    ELSE LET r == validate_oneof_fields(s, field_numbers, message.oneofs[i],
                                        message, 1)
         IN  validate_oneofs(r.s, r.field_numbers, message, i + 1)

RECURSIVE validate_enum_values(_, _, _, _)
validate_enum_values(s, enum_values, enum_def, i) ==
    IF i > Len(enum_def.values) THEN [s |-> s, enum_values |-> enum_values]
    ELSE LET value == enum_def.values[i]
         IN  validate_enum_values(
                 Push(s, value.number \in enum_values,
                      ValidationError("Duplicate enum value {} in enum '{}'",
                          <<I32ToString(value.number), enum_def.name>>)),
                 enum_values \cup {value.number}, enum_def, i + 1)

\* Variant of validate_enum that asks a zero value of an empty enum too.
validate_enum_zero_in_empty(s, enum_def) ==
    LET r == validate_enum_values(s, Entry(s.used_enum_values, enum_def.name),
                                  enum_def, 1)
        has_zero == \E i \in 1..Len(enum_def.values) :
                        enum_def.values[i].number = 0
        s1 == [r.s EXCEPT !.used_enum_values =
                  Insert(@, enum_def.name, r.enum_values)]
    IN  Push(s1, ~has_zero,
             ValidationError("Enum '{}' must have a zero value",
                             <<enum_def.name>>))

validate_enum(s, enum_def) ==
    LET r == validate_enum_values(s, Entry(s.used_enum_values, enum_def.name),
                                  enum_def, 1)
        has_zero == \E i \in 1..Len(enum_def.values) :
                        enum_def.values[i].number = 0
        s1 == [r.s EXCEPT !.used_enum_values =
                  Insert(@, enum_def.name, r.enum_values)]
    IN  Push(s1, ~has_zero /\ enum_def.values # <<>>,
             ValidationError("Enum '{}' must have a zero value",
                             <<enum_def.name>>))

RECURSIVE validate_enums(_, _, _)
validate_enums(s, enums, i) ==
    IF i > Len(enums) THEN s
    ELSE validate_enums(validate_enum(s, enums[i]), enums, i + 1)

RECURSIVE validate_message(_, _)
RECURSIVE validate_messages(_, _, _)
validate_messages(s, messages, i) ==
    IF i > Len(messages) THEN s
    ELSE validate_messages(validate_message(s, messages[i]), messages, i + 1)

validate_message(s, message) ==
    LET r1 == validate_fields(s, Entry(s.used_field_numbers, message.name),
                              message, 1)
        r2 == validate_oneofs(r1.s, r1.field_numbers, message, 1)
        s2 == [r2.s EXCEPT !.used_field_numbers =
                  Insert(@, message.name, r2.field_numbers)]
        s3 == validate_messages(s2, message.nested_messages, 1)
    IN  validate_enums(s3, message.nested_enums, 1)

\* Variant of the loop of validate_service that remembers only the name of
\* the rpc before the current one.
RECURSIVE validate_methods_previous_only(_, _, _, _)
validate_methods_previous_only(s, method_names, service, i) ==
    IF i > Len(service.methods) THEN s
    ELSE LET method == service.methods[i]
         IN  validate_methods_previous_only(
                 Push(s, method.name \in method_names,
                      ValidationError(
                          "Duplicate method name '{}' in service '{}'",
                          <<method.name, service.name>>)),
                 {method.name}, service, i + 1)

RECURSIVE validate_methods(_, _, _, _)
validate_methods(s, method_names, service, i) ==
    IF i > Len(service.methods) THEN s
    ELSE LET method == service.methods[i]
         IN  validate_methods(
                 Push(s, method.name \in method_names,
                      ValidationError(
                          "Duplicate method name '{}' in service '{}'",
                          <<method.name, service.name>>)),
                 method_names \cup {method.name}, service, i + 1)

validate_service(s, service) == validate_methods(s, {}, service, 1)

validate_statement(s, statement) ==
    CASE statement.type = "Message" -> validate_message(s, statement.message)
      [] statement.type = "Enum" -> validate_enum(s, statement.enum)
      [] statement.type = "Service" -> validate_service(s, statement.service)
      [] OTHER -> s

\* Variant of the statement loop that returns at the first statement that
\* raised a finding.
RECURSIVE validate_statements_until_finding(_, _, _)
validate_statements_until_finding(s, statements, i) ==
    IF i > Len(statements) THEN s
    ELSE IF Len(validate_statement(s, statements[i]).errors) > Len(s.errors)
    THEN validate_statement(s, statements[i])
    ELSE validate_statements_until_finding(
             validate_statement(s, statements[i]), statements, i + 1)

RECURSIVE validate_statements(_, _, _)
validate_statements(s, statements, i) ==
    IF i > Len(statements) THEN s
    ELSE validate_statements(validate_statement(s, statements[i]),
                             statements, i + 1)

Chars2023 == <<"2", "0", "2", "3">>

CharsProto2 == <<"p", "r", "o", "t", "o", "2">>

CharsProto3 == <<"p", "r", "o", "t", "o", "3">>

\* Variant of validate_proto_file that accepts no syntax but "proto3".
validate_proto_file_proto3_only(s, proto_file) ==
    LET s1 == Push(s, proto_file.edition.some
                      /\ proto_file.edition.v # Chars2023,
                   ValidationError(
                       "Unsupported edition '{}'. Only edition 2023 is supported.",
                       <<proto_file.edition.v>>))
        s2 == Push(s1, /\ proto_file.syntax.some
                       /\ proto_file.syntax.v # CharsProto3,
                   ValidationError(
                       "Invalid syntax '{}'. Must be 'proto2' or 'proto3'.",
                       <<proto_file.syntax.v>>))
    IN  validate_statements(s2, proto_file.statements, 1)

validate_proto_file(s, proto_file) ==
    LET s1 == Push(s, proto_file.edition.some
                      /\ proto_file.edition.v # Chars2023,
                   ValidationError(
                       "Unsupported edition '{}'. Only edition 2023 is supported.",
                       <<proto_file.edition.v>>))
        s2 == Push(s1, /\ proto_file.syntax.some
                       /\ proto_file.syntax.v # CharsProto2
                       /\ proto_file.syntax.v # CharsProto3,
                   ValidationError(
                       "Invalid syntax '{}'. Must be 'proto2' or 'proto3'.",
                       <<proto_file.syntax.v>>))
    IN  validate_statements(s2, proto_file.statements, 1)

\* Validator::new, with the caller's empty errors vector.
NewValidator ==
    [used_field_numbers |-> EmptyMap, used_enum_values |-> EmptyMap,
     errors |-> <<>>]

validate_proto(proto_file) == validate_proto_file(NewValidator, proto_file).errors

\* Variant of validate_proto that goes on with the sets of the Validator the
\* previous call dropped.
validate_proto_keeping(dropped, proto_file) ==
    validate_proto_file([dropped EXCEPT !.errors = <<>>], proto_file)

\* validate_proto, from the Validator the previous call dropped to the one
\* this call builds, fills and drops.
validate_proto_after(dropped, proto_file) ==
    validate_proto_file(NewValidator, proto_file)

(***************************************************************************)
(* compute_diagnostics: a Diagnostic is its message and its position (the  *)
(* range's start and end coincide); severity and source are constants.     *)
(***************************************************************************)
Diagnostic(message, line, character) ==
    [message |-> message, line |-> line, character |-> character,
     severity |-> "ERROR"]

\* Variant of compute_diagnostics that reports nothing when the parse fails.
compute_diagnostics_swallow(content) ==
    LET r == parse_proto(content)
        validation_errors == validate_proto(r.file)
    IN  IF r.err = NoError
        THEN [i \in 1..Len(validation_errors) |->
                 Diagnostic(validation_errors[i].message,
                            validation_errors[i].line,
                            validation_errors[i].column)]
        ELSE <<>>

compute_diagnostics(content) ==
    LET r == parse_proto(content)
        validation_errors == validate_proto(r.file)
    IN  IF r.err = NoError
        THEN [i \in 1..Len(validation_errors) |->
                 Diagnostic(validation_errors[i].message,
                            validation_errors[i].line,
                            validation_errors[i].column)]
        ELSE <<Diagnostic([format |-> "Parse error: {}", args |-> <<r.err>>],
                          0, 0)>>

(***************************************************************************)
(* compute_completions.  A &str is indexed by bytes: the superscript two   *)
(* takes two bytes of UTF-8, every other character of the model one.  The  *)
(* result is the labels of the completion items, or a panic.               *)
(***************************************************************************)
\* str::lines: the pieces the line feeds end, each without the carriage
\* return before its line feed, and what follows the last line feed unless
\* that is empty.
RECURSIVE str_lines(_)
str_lines(text) ==
    LET feeds == {i \in 1..Len(text) : text[i] = "\n"}
    IN  IF text = <<>> THEN <<>>
        ELSE IF feeds = {} THEN <<text>>
        ELSE LET i == CHOOSE k \in feeds : \A j \in feeds : k <= j
                 piece == SubSeq(text, 1, i - 1)
             IN  <<IF piece # <<>> /\ piece[Len(piece)] = "\r"
                   THEN SubSeq(piece, 1, Len(piece) - 1)
                   ELSE piece>>
                     \o str_lines(SubSeq(text, i + 1, Len(text)))

\* is_inside_message: the loop over the lines, from the line of index i
\* (0-based) on, and in it the loop over the characters of the line, from
\* the character line[k] on.  trimmed is line.trim().
is_inside_message(lines, current_line) ==
    LET RECURSIVE chars(_, _, _)
        chars(st, line, k) ==
            IF k > Len(line) THEN st
            ELSE IF line[k] = "{"
            THEN chars([st EXCEPT !.brace_count = @ + 1], line, k + 1)
            ELSE IF line[k] = "}"
            THEN chars([brace_count |-> st.brace_count - 1,
                        in_message |-> st.in_message
                                           /\ st.brace_count - 1 # 0],
                       line, k + 1)
            ELSE chars(st, line, k + 1)
        RECURSIVE enumerate(_, _)
        enumerate(st, i) ==
            IF i >= Len(lines) \/ i > current_line
            THEN st.in_message /\ st.brace_count > 0
            ELSE LET line == lines[i + 1]
                     kept == {k \in 1..Len(line) : line[k] \notin Whitespace}
                     trimmed ==
                         IF kept = {} THEN <<>>
                         ELSE SubSeq(line,
                                  CHOOSE k \in kept : \A j \in kept : k <= j,
                                  CHOOSE k \in kept : \A j \in kept : j <= k)
                     starts_with ==
                         /\ Len(trimmed) >= 8
                         /\ SubSeq(trimmed, 1, 8) =
                                <<"m", "e", "s", "s", "a", "g", "e", " ">>
                 IN  enumerate(
                         chars([st EXCEPT !.in_message = @ \/ starts_with],
                               line, 1),
                         i + 1)
    IN  enumerate([brace_count |-> 0, in_message |-> FALSE], 0)

\* The labels of the field type completions: the scalar types, then the
\* field modifiers and oneof.
FieldCompletions ==
    <<"double", "float", "int32", "int64", "uint32", "uint64", "sint32",
      "sint64", "fixed32", "fixed64", "sfixed32", "sfixed64", "bool",
      "string", "bytes", "repeated", "optional", "oneof">>

\* The labels of the top-level keyword completions.
KeywordCompletions ==
    <<"syntax", "edition", "package", "import", "message", "enum", "service",
      "option">>

\* len is str::len, in bytes.  &line[..end] panics when the byte index end
\* falls inside a character.  blank is line_before_cursor.trim().is_empty().
compute_completions(content, position) ==
    LET lines == str_lines(content)
        RECURSIVE len(_)
        len(line) ==
            IF line = <<>> THEN 0
            ELSE (IF Head(line) = "^2" THEN 2 ELSE 1) + len(Tail(line))
    IN  IF position.line >= Len(lines)
        THEN [panic |-> FALSE, items |-> <<>>]
        ELSE LET line == lines[position.line + 1]
                 end == IF position.character < len(line)
                        THEN position.character ELSE len(line)
                 cuts == {k \in 0..Len(line) : len(SubSeq(line, 1, k)) = end}
             IN  IF cuts = {}
                 THEN [panic |-> TRUE, items |-> <<>>]
                 ELSE LET line_before_cursor ==
                              SubSeq(line, 1, CHOOSE k \in cuts : TRUE)
                          blank ==
                              \A k \in 1..Len(line_before_cursor) :
                                  line_before_cursor[k] \in Whitespace
                          in_message ==
                              is_inside_message(lines, position.line)
                      IN  [panic |-> FALSE,
                           items |->
                               IF in_message
                               THEN IF \/ blank
                                       \/ line_before_cursor[
                                              Len(line_before_cursor)]
                                              \in Whitespace
                                    THEN FieldCompletions
                                    ELSE <<>>
                               ELSE IF blank THEN KeywordCompletions
                                    ELSE <<>>]

\* get_word_at_position: chars is line.chars().collect(), start and end are
\* 0-based indices into it, is_word_char is alphanumeric or '_'.  The slice
\* chars[start..end] panics when end is past the end of chars.
get_word_at_position(line, position) ==
    LET is_word_char(i) ==
            /\ i < Len(line)
            /\ (line[i + 1] \in Alphanumeric \/ line[i + 1] = "_")
        RECURSIVE back(_)
        back(start) ==
            IF start > 0 /\ start <= Len(line) /\ is_word_char(start - 1)
            THEN back(start - 1)
            ELSE start
        RECURSIVE forward(_)
        forward(end) ==
            IF end < Len(line) /\ is_word_char(end)
            THEN forward(end + 1)
            ELSE end
        start == back(position)
        end == forward(position)
    IN  IF start > end \/ end > Len(line)
        THEN [panic |-> TRUE, start |-> start, end |-> end, word |-> <<>>]
        ELSE [panic |-> FALSE, start |-> start, end |-> end,
              word |-> SubSeq(line, start + 1, end)]

\* compute_hover: the word under the cursor is looked up among the scalar
\* types, then among the keywords; value is format!("**{word}**\n\n{info}"),
\* kept as its pieces.
compute_hover(content, position) ==
    LET lines == str_lines(content)
        scalar_type_info ==
            {
              <<<<"d", "o", "u", "b", "l", "e">>,
                "64-bit floating point number">>,
              <<<<"f", "l", "o", "a", "t">>,
                "32-bit floating point number">>,
              <<<<"i", "n", "t", "3", "2">>,
                "32-bit signed integer using variable-length encoding">>,
              <<<<"i", "n", "t", "6", "4">>,
                "64-bit signed integer using variable-length encoding">>,
              <<<<"u", "i", "n", "t", "3", "2">>,
                "32-bit unsigned integer using variable-length encoding">>,
              <<<<"u", "i", "n", "t", "6", "4">>,
                "64-bit unsigned integer using variable-length encoding">>,
              <<<<"s", "i", "n", "t", "3", "2">>,
                "32-bit signed integer using zigzag encoding">>,
              <<<<"s", "i", "n", "t", "6", "4">>,
                "64-bit signed integer using zigzag encoding">>,
              <<<<"f", "i", "x", "e", "d", "3", "2">>,
                "32-bit unsigned integer using fixed-width encoding">>,
              <<<<"f", "i", "x", "e", "d", "6", "4">>,
                "64-bit unsigned integer using fixed-width encoding">>,
              <<<<"s", "f", "i", "x", "e", "d", "3", "2">>,
                "32-bit signed integer using fixed-width encoding">>,
              <<<<"s", "f", "i", "x", "e", "d", "6", "4">>,
                "64-bit signed integer using fixed-width encoding">>,
              <<<<"b", "o", "o", "l">>,
                "Boolean value (true or false)">>,
              <<<<"s", "t", "r", "i", "n", "g">>,
                "UTF-8 encoded string">>,
              <<<<"b", "y", "t", "e", "s">>,
                "Arbitrary sequence of bytes">> }
        keyword_info ==
            {
              <<<<"m", "e", "s", "s", "a", "g", "e">>,
                "Defines a message type">>,
              <<<<"e", "n", "u", "m">>,
                "Defines an enumeration">>,
              <<<<"s", "e", "r", "v", "i", "c", "e">>,
                "Defines an RPC service">>,
              <<<<"r", "e", "p", "e", "a", "t", "e", "d">>,
                "Field can have zero or more values">>,
              <<<<"o", "p", "t", "i", "o", "n", "a", "l">>,
                "Field is optional (proto3)">>,
              <<<<"o", "n", "e", "o", "f">>,
                "Exactly one field from a set must be set">>,
              <<<<"s", "y", "n", "t", "a", "x">>,
                "Specifies the protocol buffer syntax version">>,
              <<<<"e", "d", "i", "t", "i", "o", "n">>,
                "Specifies the protocol buffer edition (2023)">>,
              <<<<"p", "a", "c", "k", "a", "g", "e">>,
                "Declares the package name">>,
              <<<<"i", "m", "p", "o", "r", "t">>,
                "Imports definitions from another .proto file">> }
        Markup(word, info) ==
            Some([kind |-> "Markdown",
                  value |-> <<"**", word, "**\n\n", info>>])
    IN  IF position.line >= Len(lines)
        THEN [panic |-> FALSE, word |-> None, hover |-> None]
        ELSE LET got == get_word_at_position(lines[position.line + 1],
                                             position.character)
                 scalar == {row \in scalar_type_info : row[1] = got.word}
                 keyword == {row \in keyword_info : row[1] = got.word}
             IN  IF got.panic
                 THEN [panic |-> TRUE, word |-> None, hover |-> None]
                 ELSE [panic |-> FALSE,
                       word |-> Some([start |-> got.start, end |-> got.end,
                                      text |-> got.word]),
                       hover |->
                           IF scalar # {}
                           THEN Markup(got.word,
                                       (CHOOSE row \in scalar : TRUE)[2])
                           ELSE IF keyword # {}
                           THEN Markup(got.word,
                                       (CHOOSE row \in keyword : TRUE)[2])
                           ELSE None]

(***************************************************************************)
(* Inputs                                                                  *)
(***************************************************************************)
SeqsUpTo(S, n) == UNION {[1..k -> S] : k \in 0..n}

RECURSIVE Flatten(_)
Flatten(ss) == IF ss = <<>> THEN <<>> ELSE Head(ss) \o Flatten(Tail(ss))

\* Texts over a small alphabet: whitespace, both comment forms, a string
\* quote, an identifier, a symbol and a character no token starts with.
MaxLen == 4

Alphabet == {"a", " ", "\n", "/", "*", "\"", "@", ";"}

CharTexts(n) == SeqsUpTo(Alphabet, n)

\* Texts made of pieces of declarations.
MaxSnippets == 4

KwMessage == <<"m", "e", "s", "s", "a", "g", "e">>
KwOneof == <<"o", "n", "e", "o", "f">>
KwEnum == <<"e", "n", "u", "m">>
KwService == <<"s", "e", "r", "v", "i", "c", "e">>
KwRpc == <<"r", "p", "c">>
KwReturns == <<"r", "e", "t", "u", "r", "n", "s">>
KwOption == <<"o", "p", "t", "i", "o", "n">>
KwPackage == <<"p", "a", "c", "k", "a", "g", "e">>
KwSyntax == <<"s", "y", "n", "t", "a", "x">>

Snippets ==
    { KwMessage \o <<" ", "M", "{">>,
      <<"a", " ", "b", "=", "1", ";", ";">>,
      KwOneof \o <<" ", "o", "{", "a", " ", "c", "=", "1", ";">>,
      <<"}">>,
      KwEnum \o <<" ", "E", "{", "A", "=", "1", ";", ";">>,
      KwService \o <<" ", "S", "{">> \o KwRpc \o <<" ", "F", "(", "a", ")">>
          \o KwReturns \o <<"(", "a", ")", "{">>,
      KwOption \o <<" ", "o", "=", "1", ";", ";">>,
      KwSyntax \o <<"=", "\"", "x", "\"", ";", ";">>
          \o KwPackage \o <<" ", "a", ".", "b", ";">>,
      <<"a", " ", "d", "=", "0", "[", "c", "=", "1", ",", "(", "d", ")", "=",
        "2", "]", ";">>,
      <<"@">> }

SnippetTexts(n) == {Flatten(ss) : ss \in SeqsUpTo(Snippets, n)}

KwEdition == <<"e", "d", "i", "t", "i", "o", "n">>

\* A message that parses and has a field numbered 0.
ZeroFieldMessage ==
    KwMessage \o <<" ", "M", "{", "a", " ", "b", "=", "0", ";", "}">>

\* Declarations cut into pieces at token boundaries, the opening and the
\* closing of a block comment being pieces too, and the texts that end after
\* a piece other than the last: each ends in the middle of its declaration.
UnfinishedTexts ==
    UNION { {Flatten(SubSeq(pieces, 1, k)) : k \in 1..(Len(pieces) - 1)} :
        pieces \in
            { <<KwMessage \o <<" ", "M">>, <<"{">>, <<"a", " ", "b">>, <<"=">>,
                <<"1">>, <<";">>, KwOneof \o <<" ", "o">>, <<"{">>,
                <<"a", " ", "c", "=", "2", ";">>, <<"}">>,
                KwEnum \o <<" ", "E", "{", "A", "=", "0", ";", "}">>, <<"}">>>>,
              <<KwEnum \o <<" ", "E">>, <<"{">>, <<"A">>, <<"=">>, <<"0">>,
                <<";">>, <<"}">>>>,
              <<KwService \o <<" ", "S">>, <<"{">>, KwRpc \o <<" ", "F">>,
                <<"(", "a", ")">>, KwReturns, <<"(", "a", ")">>, <<"{">>,
                KwOption \o <<" ", "o">>, <<"=">>, <<"1">>, <<";">>, <<"}">>,
                <<"}">>>>,
              <<KwSyntax, <<"=">>, <<"\"", "x", "\"">>, <<";">>>>,
              <<KwPackage \o <<" ", "a">>, <<".">>, <<"b">>, <<";">>>>,
              <<KwMessage \o <<" ", "M", "{">>, <<"/", "*">>, <<"}">>,
                <<"*", "/">>, <<"}">>>> } }

\* The text of a token that may stand where a declaration has its value, with
\* the token the lexer makes of it.
DeclaredValues ==
    { [text |-> <<"p", "r", "o", "t", "o", "3">>,
       token |-> TokV("Identifier", <<"p", "r", "o", "t", "o", "3">>)],
      [text |-> <<"3">>, token |-> TokV("NumberLiteral", <<"3">>)],
      [text |-> <<"t", "r", "u", "e">>, token |-> Tok("True")],
      [text |-> KwSyntax, token |-> Tok("Syntax")],
      [text |-> <<";">>, token |-> Tok("Semicolon")],
      [text |-> <<"\"", "x", "\"">>, token |-> TokV("StringLiteral", <<"x">>)],
      [text |-> <<"\"", "\"">>, token |-> TokV("StringLiteral", <<>>)] }

\* A syntax or edition declaration with the given value, between two texts.
Declaration(before, keyword, value, after) ==
    before \o keyword \o <<" ", "=", " ">> \o value \o after

\* What may follow the value: nothing, the semicolon, a message.
Continuations ==
    { <<>>, <<";">>, <<" ">> \o ZeroFieldMessage, <<";">> \o ZeroFieldMessage }

\* Declarations of every such value, with or without the semicolon, alone or
\* before or after a message, and declarations cut after the equals sign.
DeclarationTexts ==
    { Declaration(before, keyword, value.text, after) :
        before \in {<<>>, ZeroFieldMessage},
        keyword \in {KwSyntax, KwEdition},
        value \in DeclaredValues,
        after \in Continuations }
    \cup
    { Declaration(before, keyword, <<>>, <<>>) :
        before \in {<<>>, ZeroFieldMessage},
        keyword \in {KwSyntax, KwEdition} }


(***************************************************************************)
(* ProtoFiles for the validator.  Fields and oneofs are named by their      *)
(* position; a file is the list of its top-level messages.                  *)
(***************************************************************************)
Letters == <<"a", "b", "c", "d", "e", "f", "g", "h">>

NameAt(i) == <<Letters[((i - 1) % Len(Letters)) + 1]>>

MakeField(name, number) ==
    [name |-> name, field_type |-> <<"t">>, number |-> number,
     label |-> None, options |-> EmptyMap]

\* Fields numbered by `numbers`, named from the `first` letter on.
MakeFields(first, numbers) ==
    [i \in 1..Len(numbers) |-> MakeField(NameAt(first + i - 1), numbers[i])]

\* Oneofs o1, o2, ... with the field numbers of `bodies`.
MakeOneofs(bodies) ==
    [j \in 1..Len(bodies) |->
        [name |-> <<"o", DigitChar(j % 10)>>,
         fields |-> MakeFields(4 * j + 1, bodies[j])]]

MakeMessage(name, fields, oneofs, nested_messages) ==
    [name |-> name, fields |-> fields, oneofs |-> oneofs,
     nested_messages |-> nested_messages, nested_enums |-> <<>>,
     options |-> EmptyMap]

MakeFile(messages) ==
    [syntax |-> None, edition |-> None,
     statements |-> [i \in 1..Len(messages) |->
                        [type |-> "Message", message |-> messages[i]]]]

MaxFields == 2

MaxOneofs == 2

\* One message with up to MaxFields direct fields and up to MaxOneofs oneofs
\* of up to MaxFields fields, over the numbers 0 and 1.
RichFiles(fields, oneofs) ==
    { MakeFile(<<MakeMessage(<<"M">>, MakeFields(1, ns), MakeOneofs(os), <<>>)>>) :
        ns \in SeqsUpTo({U32(0), U32(1)}, fields),
        os \in SeqsUpTo(SeqsUpTo({U32(0), U32(1)}, fields), oneofs) }

\* One message whose direct fields take numbers at and around the limits of
\* the reserved range, the largest u32, and a number above 2^16 whose low 16
\* bits fall in the range.
RangeNumbers ==
    { U32(0), U32(1), U32(18999), U32(19000), U32(19500), U32(19999),
      U32(20000), U32(Limb + 19500), [hi |-> Limb - 1, lo |-> Limb - 1] }

RangeFiles(fields) ==
    { MakeFile(<<MakeMessage(<<"M">>, MakeFields(1, ns), <<>>, <<>>)>>) :
        ns \in SeqsUpTo(RangeNumbers, fields) }

\* Up to MaxMessages top-level messages named A or B, each with at most one
\* field, numbered 1, direct or in a oneof, and at most one nested message,
\* named A, B or C, that has one such field.
MaxMessages == 2

Bodies ==
    { [fields |-> MakeFields(1, <<U32(1)>>), oneofs |-> <<>>],
      [fields |-> <<>>, oneofs |-> MakeOneofs(<<<<U32(1)>>>>)] }

NestedMessages ==
    { MakeMessage(name, body.fields, body.oneofs, <<>>) :
        name \in {<<"A">>, <<"B">>, <<"C">>}, body \in Bodies }

TopLevelMessages ==
    { MakeMessage(name, body.fields, body.oneofs, nested) :
        name \in {<<"A">>, <<"B">>},
        body \in Bodies \cup {[fields |-> <<>>, oneofs |-> <<>>]},
        nested \in {<<>>} \cup {<<m>> : m \in NestedMessages} }

ScopeFiles(messages) ==
    {MakeFile(ms) : ms \in SeqsUpTo(TopLevelMessages, messages)}

MakeProtoFile(syntax, edition, statements) ==
    [syntax |-> syntax, edition |-> edition, statements |-> statements]

\* An enum whose values a, b, ... have the given numbers.
MakeEnum(name, numbers) ==
    [name |-> name,
     values |-> [i \in 1..Len(numbers) |->
                    [name |-> NameAt(i), number |-> numbers[i],
                     options |-> EmptyMap]],
     options |-> EmptyMap]

MaxValues == 2

MaxStatements == 2

\* Up to `statements` statements, each a top-level enum E with values
\* numbered 0 or 1, a top-level enum F with values numbered 1, or an enum E
\* with values numbered 0 or 1 nested in a message named M that has nothing
\* else; up to `values` values each.
EnumFiles(values, statements) ==
    { MakeProtoFile(None, None, ss) :
        ss \in SeqsUpTo(
                   { [type |-> "Enum", enum |-> MakeEnum(<<"E">>, ns)] :
                       ns \in SeqsUpTo({0, 1}, values) }
                   \cup
                   { [type |-> "Enum", enum |-> MakeEnum(<<"F">>, ns)] :
                       ns \in SeqsUpTo({1}, values) }
                   \cup
                   { [type |-> "Message",
                      message |-> [MakeMessage(<<"M">>, <<>>, <<>>, <<>>)
                                       EXCEPT !.nested_enums =
                                           <<MakeEnum(<<"E">>, ns)>>]] :
                       ns \in SeqsUpTo({0, 1}, values) },
                   statements) }

I32Max == 2147483647

\* One enum whose values take numbers over the whole i32 range.
SignedEnumFiles(values) ==
    { MakeProtoFile(None, None,
                    <<[type |-> "Enum", enum |-> MakeEnum(<<"E">>, ns)]>>) :
        ns \in SeqsUpTo({I32Min, -1, 0, 2, I32Max}, values) }

\* A service whose rpcs have the given names.
MakeService(name, method_names) ==
    [name |-> name,
     methods |-> [i \in 1..Len(method_names) |->
                     [name |-> method_names[i],
                      request_type |-> <<"t">>, response_type |-> <<"t">>,
                      client_streaming |-> FALSE, server_streaming |-> FALSE,
                      options |-> EmptyMap]],
     options |-> EmptyMap]

MaxMethods == 3

\* Up to `statements` services, each with up to `methods` rpcs: a service S
\* with rpcs named F or G, or a service T with rpcs named F.
ServiceFiles(methods, statements) ==
    { MakeProtoFile(None, None, ss) :
        ss \in SeqsUpTo(
                   { [type |-> "Service", service |-> MakeService(<<"S">>, ms)] :
                       ms \in SeqsUpTo({<<"F">>, <<"G">>}, methods) }
                   \cup
                   { [type |-> "Service", service |-> MakeService(<<"T">>, ms)] :
                       ms \in SeqsUpTo({<<"F">>}, methods) },
                   statements) }

\* Files that declare a syntax, an edition, both or neither ("-" stands for
\* no declaration), with no statement or with a message that has a field
\* numbered 0.
DeclarationFiles ==
    { MakeProtoFile(IF declared[1] = <<"-">> THEN None ELSE Some(declared[1]),
                    IF declared[2] = <<"-">> THEN None ELSE Some(declared[2]),
                    statements) :
        declared \in
            [1..2 -> { <<"-">>, <<>>, Chars2023, <<"2", "0", "2", "4">>,
                       CharsProto2, CharsProto3,
                       <<"p", "r", "o", "t", "o", "4">>,
                       <<"P", "R", "O", "T", "O", "3">> }],
        statements \in
            { <<>>,
              <<[type |-> "Message",
                 message |-> MakeMessage(<<"M">>, MakeFields(1, <<U32(0)>>),
                                         <<>>, <<>>)]>> } }

(***************************************************************************)
(* DocumentStore: a map from the URI to the Document, which is the content *)
(* and the version.                                                        *)
(***************************************************************************)
open_document(store, uri, content, version) ==
    Insert(store, uri, [content |-> content, version |-> version])

\* Variant of update_document that stores the document whether or not the
\* URI is in the store.
update_document_upsert(store, uri, content, version) ==
    Insert(store, uri, [content |-> content, version |-> version])

update_document(store, uri, content, version) ==
    IF uri \in DOMAIN store
    THEN Insert(store, uri, [content |-> content, version |-> version])
    ELSE store

close_document(store, uri) == [k \in DOMAIN store \ {uri} |-> store[k]]

get_document(store, uri) ==
    IF uri \in DOMAIN store THEN Some(store[uri]) ELSE None

(***************************************************************************)
(* The pipeline of one text: parse_proto, validate_proto on the file it    *)
(* returned, and compute_diagnostics on the same text.                     *)
(***************************************************************************)
VARIABLES
    content,      \* the text
    parsed,       \* what parse_proto(content) returned
    proto_file,   \* the ProtoFile handed to validate_proto
    errors,       \* what validate_proto(proto_file) returned
    diagnostics,  \* what compute_diagnostics(content) returned
    pc,
    log,          \* the calls of parse_proto and validate_proto made so far
    validator,    \* the Validator the last validate_proto call dropped
    tasks,        \* the notification handlers of the language server
    documents,    \* DocumentStore::documents
    published,    \* the publish_diagnostics notifications sent to the client
    cursor,       \* the Position of a completion or hover request
    completions,  \* what compute_completions(content, cursor) returned
    lexer,        \* a Lexer: its input and its position
    hover         \* what compute_hover(content, cursor) returned

vars ==
    <<content, parsed, proto_file, errors, diagnostics, pc, log, validator,
      tasks, documents, published, cursor, completions, lexer, hover>>

\* The values the other variables keep while one text goes through the
\* pipeline: no call logged, no notification received, no completion or
\* hover asked, no text handed to a Lexer.
Idle ==
    /\ log = <<>>
    /\ validator = NewValidator
    /\ tasks = <<>>
    /\ documents = EmptyMap
    /\ published = <<>>
    /\ cursor = [line |-> 0, character |-> 0]
    /\ completions = <<>>
    /\ lexer = [input |-> <<>>, position |-> 0]
    /\ hover = None

NotRun == [err |-> NoError, file |-> EmptyProtoFile]

InitDiag ==
    /\ \/ content \in CharTexts(MaxLen)
       \/ content \in SnippetTexts(MaxSnippets)
       \/ content \in DeclarationTexts
       \* a field with one bracketed option, named by a bare identifier, a
       \* parenthesized one or a parenthesized dotted one
       \/ content \in
              { KwMessage \o <<" ", "M", "{", "a", " ", "b", "=", "1", "[">>
                    \o name \o <<"=", "1", "]", ";", "}">> :
                  name \in { <<"c">>, <<"(", "c", ")">>,
                             <<"(", "c", ".", "d", ")">> } }
       \/ content \in UnfinishedTexts
       \* a field, direct or in a oneof, whose number is a literal at and
       \* around the limits of u32, signed, fractional or not ASCII
       \/ \E literal \in { <<"0">>, <<"0", "0", "7">>,
                            <<"4", "2", "9", "4", "9", "6", "7", "2", "9", "5">>,
                            <<"4", "2", "9", "4", "9", "6", "7", "2", "9", "6">>,
                            <<"9", "9", "9", "9", "9", "9", "9", "9", "9", "9",
                              "9">>,
                            <<"-", "1">>, <<"-", "0">>, <<"-">>,
                            <<"1", ".", "5">>, <<"^2">> } :
              \/ content = KwMessage \o <<" ", "M", "{", "a", " ", "b", "=">>
                               \o literal \o <<";", "}">>
              \/ content = KwMessage \o <<" ", "M", "{">> \o KwOneof
                               \o <<" ", "o", "{", "a", " ", "b", "=">>
                               \o literal \o <<";", "}", "}">>
    /\ parsed = NotRun
    /\ proto_file = EmptyProtoFile
    /\ errors = <<>>
    /\ diagnostics = <<>>
    /\ pc = "start"
    /\ Idle

ParseProto ==
    /\ pc = "start"
    /\ parsed' = parse_proto(content)
    /\ proto_file' = parsed'.file
    /\ pc' = IF parsed'.err = NoError THEN "file" ELSE "failed"
    /\ UNCHANGED <<lexer, hover,
                   content, errors, diagnostics, log, validator, tasks,
                   documents, published, cursor, completions>>

ValidateProto ==
    /\ pc = "file"
    /\ errors' = validate_proto(proto_file)
    /\ pc' = "validated"
    /\ UNCHANGED <<lexer, hover,
                   content, parsed, proto_file, diagnostics, log, validator,
                   tasks, documents, published, cursor, completions>>

ComputeDiagnostics ==
    /\ pc \in {"failed", "validated"}
    /\ diagnostics' = compute_diagnostics(content)
    /\ pc' = "done"
    /\ UNCHANGED <<lexer, hover,
                   content, parsed, proto_file, errors, log, validator,
                   tasks, documents, published, cursor, completions>>

NextDiag == ParseProto \/ ValidateProto \/ ComputeDiagnostics

SpecDiag == InitDiag /\ [][NextDiag]_vars

(***************************************************************************)
(* validate_proto called on a ProtoFile of the bounded families.           *)
(***************************************************************************)
InitValidate ==
    /\ content = <<>>
    /\ parsed = NotRun
    /\ \/ proto_file \in RichFiles(MaxFields, MaxOneofs)
       \/ proto_file \in RangeFiles(MaxFields)
       \/ proto_file \in ScopeFiles(MaxMessages)
       \/ proto_file \in EnumFiles(MaxValues, MaxStatements)
       \/ proto_file \in SignedEnumFiles(MaxValues)
       \/ proto_file \in ServiceFiles(MaxMethods, MaxStatements)
       \/ proto_file \in DeclarationFiles
       \* one message with one oneof whose fields take the numbers at and
       \* around the limits of the reserved range
       \/ proto_file \in
              { MakeFile(<<MakeMessage(<<"M">>, <<>>, MakeOneofs(<<ns>>), <<>>)>>) :
                  ns \in SeqsUpTo(RangeNumbers, MaxFields) }
    /\ errors = <<>>
    /\ diagnostics = <<>>
    /\ pc = "file"
    /\ Idle

NextValidate == ValidateProto

SpecValidate == InitValidate /\ [][NextValidate]_vars

(***************************************************************************)
(* parse_proto followed by validate_proto, called again and again on texts *)
(* that may repeat.  Each validate_proto call builds its own Validator and *)
(* drops it when it returns.                                               *)
(***************************************************************************)
MaxCalls == 3

\* Nothing analysed, received or asked yet.
InitSession ==
    /\ content = <<>>
    /\ parsed = NotRun
    /\ proto_file = EmptyProtoFile
    /\ errors = <<>>
    /\ diagnostics = <<>>
    /\ pc = "start"
    /\ Idle

Analyse ==
    /\ Len(log) < MaxCalls
    /\ \E text \in
           { <<>>, <<"@">>, ZeroFieldMessage, ZeroFieldMessage \o ZeroFieldMessage,
             KwEnum \o <<" ", "E", "{", "A", "=", "1", ";", "B", "=", "1", ";", "}">>,
             Declaration(<<>>, KwSyntax, <<"p", "r", "o", "t", "o", "3">>, <<";">>),
             Declaration(<<>>, KwEdition, <<"\"", "x", "\"">>, <<";">>) } :
           /\ content' = text
           /\ parsed' = parse_proto(text)
           /\ proto_file' = parsed'.file
           /\ validator' = IF parsed'.err = NoError
                           THEN validate_proto_after(validator, proto_file')
                           ELSE validator
           /\ errors' = IF parsed'.err = NoError THEN validator'.errors ELSE <<>>
           /\ log' = Append(log, [text |-> text, parsed |-> parsed',
                                  errors |-> errors'])
    /\ UNCHANGED <<lexer, hover,
                   diagnostics, pc, tasks, documents, published, cursor,
                   completions>>

SpecRepeat == InitSession /\ [][Analyse]_vars

(***************************************************************************)
(* The language server.  Every notification is handled by a task of its    *)
(* own: it waits for the write lock of the document store, runs the body   *)
(* of its handler, which sends the publish_diagnostics notification, and   *)
(* gives the lock back when the handler returns.  A task is the            *)
(* notification (its method, the URI, the text of did_open or the content  *)
(* changes of did_change, the version) and the place the handler is at.    *)
(***************************************************************************)
MaxNotifications == 2

\* The client sends a notification and the server starts its handler.
Receive ==
    /\ Len(tasks) < MaxNotifications
    /\ \E method \in {"did_open", "did_change", "did_close"} :
       \E uri \in {"file:///u.proto", "file:///v.proto"} :
       \E texts \in {<<>>, <<<<"a">>>>, <<ZeroFieldMessage>>,
                     <<<<"a">>, ZeroFieldMessage>>,
                     <<ZeroFieldMessage, <<"a">>>>} :
           /\ method = "did_open" => Len(texts) = 1
           /\ method = "did_close" => texts = <<>>
           /\ tasks' = Append(tasks, [method |-> method, uri |-> uri,
                                      texts |-> texts,
                                      version |-> Len(tasks) + 1,
                                      pc |-> "waiting"])
    /\ UNCHANGED <<lexer, hover,
                   content, parsed, proto_file, errors, diagnostics, pc, log,
                   validator, documents, published, cursor, completions>>

\* Variant of Lock that grants the write lock whoever holds it.
Lock_shared ==
    /\ \E t \in 1..Len(tasks) :
           /\ tasks[t].pc = "waiting"
           /\ tasks' = [tasks EXCEPT ![t].pc = "locked"]
    /\ UNCHANGED <<lexer, hover,
                   content, parsed, proto_file, errors, diagnostics, pc, log,
                   validator, documents, published, cursor, completions>>

\* self.documents.write().await: granted when no handler holds the guard.
Lock ==
    /\ \A o \in 1..Len(tasks) :
           tasks[o].pc \notin {"locked", "publishing", "returning"}
    /\ \E t \in 1..Len(tasks) :
           /\ tasks[t].pc = "waiting"
           /\ tasks' = [tasks EXCEPT ![t].pc = "locked"]
    /\ UNCHANGED <<lexer, hover,
                   content, parsed, proto_file, errors, diagnostics, pc, log,
                   validator, documents, published, cursor, completions>>

\* Variant of did_change that takes the text of the last content change.
did_change_last ==
    /\ \E t \in 1..Len(tasks) :
           /\ tasks[t].method = "did_change"
           /\ \/ /\ tasks[t].pc = "locked"
                 /\ IF tasks[t].texts # <<>>
                    THEN /\ documents' =
                                update_document(documents, tasks[t].uri,
                                    tasks[t].texts[Len(tasks[t].texts)],
                                    tasks[t].version)
                         /\ log' = Append(log, [task |-> t,
                                                uri |-> tasks[t].uri])
                         /\ tasks' = [tasks EXCEPT ![t].pc = "publishing"]
                    ELSE /\ tasks' = [tasks EXCEPT ![t].pc = "returning"]
                         /\ UNCHANGED <<documents, log>>
                 /\ UNCHANGED published
              \/ /\ tasks[t].pc = "publishing"
                 /\ \E change \in {tasks[t].texts[Len(tasks[t].texts)]} :
                        published' =
                            Append(published,
                                [uri |-> tasks[t].uri,
                                 diagnostics |-> compute_diagnostics(change),
                                 version |-> None, task |-> t])
                 /\ tasks' = [tasks EXCEPT ![t].pc = "returning"]
                 /\ UNCHANGED <<documents, log>>
    /\ UNCHANGED <<lexer, hover,
                   content, parsed, proto_file, errors, diagnostics, pc,
                   validator, cursor, completions>>

\* did_open, holding the guard: params.text_document.text is stored, then
\* diagnosed and the diagnostics are published.  log keeps the calls of
\* open_document and update_document in the order they are made.
did_open ==
    /\ \E t \in 1..Len(tasks) :
           /\ tasks[t].method = "did_open"
           /\ \/ /\ tasks[t].pc = "locked"
                 /\ documents' = open_document(documents, tasks[t].uri,
                                               tasks[t].texts[1],
                                               tasks[t].version)
                 /\ log' = Append(log, [task |-> t, uri |-> tasks[t].uri])
                 /\ tasks' = [tasks EXCEPT ![t].pc = "publishing"]
                 /\ UNCHANGED published
              \/ /\ tasks[t].pc = "publishing"
                 /\ \E text \in {tasks[t].texts[1]} :
                        published' =
                            Append(published,
                                [uri |-> tasks[t].uri,
                                 diagnostics |-> compute_diagnostics(text),
                                 version |-> None, task |-> t])
                 /\ tasks' = [tasks EXCEPT ![t].pc = "returning"]
                 /\ UNCHANGED <<documents, log>>
    /\ UNCHANGED <<lexer, hover,
                   content, parsed, proto_file, errors, diagnostics, pc,
                   validator, cursor, completions>>

\* did_change, holding the guard: params.content_changes.into_iter().next()
\* is the first content change; if there is one it is handed to
\* update_document, then diagnosed and the diagnostics are published.
did_change ==
    /\ \E t \in 1..Len(tasks) :
           /\ tasks[t].method = "did_change"
           /\ \/ /\ tasks[t].pc = "locked"
                 /\ IF tasks[t].texts # <<>>
                    THEN /\ documents' =
                                update_document(documents, tasks[t].uri,
                                                tasks[t].texts[1],
                                                tasks[t].version)
                         /\ log' = Append(log, [task |-> t,
                                                uri |-> tasks[t].uri])
                         /\ tasks' = [tasks EXCEPT ![t].pc = "publishing"]
                    ELSE /\ tasks' = [tasks EXCEPT ![t].pc = "returning"]
                         /\ UNCHANGED <<documents, log>>
                 /\ UNCHANGED published
              \/ /\ tasks[t].pc = "publishing"
                 /\ \E change \in {tasks[t].texts[1]} :
                        published' =
                            Append(published,
                                [uri |-> tasks[t].uri,
                                 diagnostics |-> compute_diagnostics(change),
                                 version |-> None, task |-> t])
                 /\ tasks' = [tasks EXCEPT ![t].pc = "returning"]
                 /\ UNCHANGED <<documents, log>>
    /\ UNCHANGED <<lexer, hover,
                   content, parsed, proto_file, errors, diagnostics, pc,
                   validator, cursor, completions>>

did_close ==
    /\ \E t \in 1..Len(tasks) :
           /\ tasks[t].pc = "locked"
           /\ tasks[t].method = "did_close"
           /\ documents' = close_document(documents, tasks[t].uri)
           /\ tasks' = [tasks EXCEPT ![t].pc = "returning"]
    /\ UNCHANGED <<lexer, hover,
                   content, parsed, proto_file, errors, diagnostics, pc, log,
                   validator, published, cursor, completions>>

\* The handler returns: the publish_diagnostics it awaited, if any, has
\* completed and the write guard is dropped.
Return ==
    /\ \E t \in 1..Len(tasks) :
           /\ tasks[t].pc = "returning"
           /\ tasks' = [tasks EXCEPT ![t].pc = "done"]
    /\ UNCHANGED <<lexer, hover,
                   content, parsed, proto_file, errors, diagnostics, pc, log,
                   validator, documents, published, cursor, completions>>

\* The runtime runs every task that can run: the lock is granted to a
\* waiting task once its holder has returned, a handler that holds the lock
\* takes its next step, whichever it is, and a handler whose body has run
\* returns.  The client is free to send nothing more.
FairServer ==
    /\ InitSession
    /\ [][Receive \/ Lock \/ did_open \/ did_change \/ did_close \/ Return]_vars
    /\ WF_vars(Lock)
    /\ WF_tasks(\E t \in 1..Len(tasks) :
                    \/ /\ tasks[t].pc = "locked"
                       /\ \/ tasks' = [tasks EXCEPT ![t].pc = "publishing"]
                          \/ tasks' = [tasks EXCEPT ![t].pc = "returning"]
                    \/ /\ tasks[t].pc = "publishing"
                       /\ tasks' = [tasks EXCEPT ![t].pc = "returning"])
    /\ WF_vars(Return)

(***************************************************************************)
(* One completion request: compute_completions on the text of a document   *)
(* and a cursor.  The texts are made of up to MaxLines lines, with or      *)
(* without a final line feed; the cursor is on one of the lines 0 to       *)
(* MaxLines, at a character from 0 to MaxCharacter.                        *)
(***************************************************************************)
MaxLines == 3

MaxCharacter == 3

EditorTexts(n) ==
    { Flatten([i \in 1..Len(ls) |->
                  ls[i] \o (IF i < Len(ls) THEN <<"\n">> ELSE end)]) :
          ls \in SeqsUpTo({ <<>>, <<" ">>, <<"a">>, <<"a", " ">>, <<"}">>,
                            <<"^2">>,
                            KwMessage \o <<" ", "M", "{">>,
                            KwMessage \o <<" ", "A", "{", "}">>,
                            KwEnum \o <<" ", "E", "{">> }, n),
          end \in {<<>>, <<"\n">>} }

ComputeCompletions ==
    /\ pc = "start"
    /\ \E text \in EditorTexts(MaxLines) :
       \E line \in 0..MaxLines :
       \E character \in 0..MaxCharacter :
       \E position \in {[line |-> line, character |-> character]} :
       \E returned \in {compute_completions(text, position)} :
           /\ content' = text
           /\ cursor' = position
           /\ completions' = returned.items
           /\ pc' = IF returned.panic THEN "panicked" ELSE "completed"
    /\ UNCHANGED <<lexer, hover,
                   parsed, proto_file, errors, diagnostics, log, validator,
                   tasks, documents, published>>

\* The hover request: the cursor may be on any line index up to one past
\* the last line and any character index up to MaxCharacter.  hover keeps
\* what compute_hover returned and the word it extracted.
ComputeHover ==
    /\ pc = "start"
    /\ \E text \in EditorTexts(MaxLines)
                    \cup { <<"b", "o", "o", "l">>,
                           <<"a", " ", "b", "o", "o", "l", " ", "x">>,
                           <<"a", "_", "1", " ">>,
                           <<"e", "n", "u", "m", "\n", "^2", "a">> } :
       \E line \in 0..MaxLines :
       \E character \in 0..MaxCharacter :
       \E position \in {[line |-> line, character |-> character]} :
       \E returned \in {compute_hover(text, position)} :
           /\ content' = text
           /\ cursor' = position
           /\ hover' = [word |-> returned.word, hover |-> returned.hover]
           /\ pc' = IF returned.panic THEN "hover panicked" ELSE "hovered"
    /\ UNCHANGED <<lexer, completions,
                   parsed, proto_file, errors, diagnostics, log, validator,
                   tasks, documents, published>>

SpecEditor == InitSession /\ [][ComputeCompletions \/ ComputeHover]_vars

(***************************************************************************)
(* A Lexer made of a text and asked for up to MaxTokens tokens.  log keeps *)
(* for every next_token call the position before it and what it returned,  *)
(* position after it included.  The texts are those over the small         *)
(* alphabet and some with numbers, identifiers and escapes.                *)
(***************************************************************************)
MaxTokens == 5

Lexer_new ==
    /\ pc = "start"
    /\ \E input \in CharTexts(MaxLen)
                     \cup { <<"-">>, <<"-", "1", ".">>, <<"1", "a">>,
                            <<"_", "a", "-">>, <<"^2", "^2">>,
                            <<"\"", "\\">>, <<"\"", "\\", "\"">>,
                            <<"/", "*", "a", " ", "b">> } :
           lexer' = [input |-> input, position |-> 0]
    /\ pc' = "lexing"
    /\ UNCHANGED <<content, parsed, proto_file, errors, diagnostics, log,
                   validator, tasks, documents, published, cursor,
                   completions, hover>>

Lexer_next_token ==
    /\ pc = "lexing"
    /\ Len(log) < MaxTokens
    /\ \E returned \in {next_token(lexer.input, lexer.position)} :
           /\ lexer' = [lexer EXCEPT !.position = returned.pos]
           /\ log' = Append(log, [position |-> lexer.position,
                                  returned |-> returned])
    /\ UNCHANGED <<content, parsed, proto_file, errors, diagnostics, pc,
                   validator, tasks, documents, published, cursor,
                   completions, hover>>

SpecLexer == InitSession /\ [][Lexer_new \/ Lexer_next_token]_vars

(***************************************************************************)
(* Vocabulary of the properties.                                           *)
(***************************************************************************)
Range(seq) == {seq[i] : i \in 1..Len(seq)}

\* How many times the finding or diagnostic e occurs in a list.
Occurrences(list, e) == Cardinality({i \in 1..Len(list) : list[i] = e})

\* The messages of a list and, after each, the messages nested in it.
RECURSIVE Descend(_)
Descend(messages) ==
    IF messages = <<>> THEN <<>>
    ELSE <<Head(messages)>> \o Descend(Head(messages).nested_messages)
                            \o Descend(Tail(messages))

TopLevel(file) ==
    LET isMessage(i) == file.statements[i].type = "Message"
    IN  [k \in 1..Cardinality({i \in 1..Len(file.statements) : isMessage(i)}) |->
            file.statements[
                CHOOSE i \in 1..Len(file.statements) :
                    /\ isMessage(i)
                    /\ Cardinality({j \in 1..i : isMessage(j)}) = k].message]

\* Every message of the file, at any depth.
AllMessages(file) == Descend(TopLevel(file))

\* The fields of the oneofs of a message, in order, each with its oneof's name.
RECURSIVE OneofFieldsFrom(_, _)
OneofFieldsFrom(oneofs, j) ==
    IF j > Len(oneofs) THEN <<>>
    ELSE [i \in 1..Len(oneofs[j].fields) |->
             [oneof |-> oneofs[j].name, field |-> oneofs[j].fields[i]]]
         \o OneofFieldsFrom(oneofs, j + 1)

OneofFields(message) == OneofFieldsFrom(message.oneofs, 1)

DirectNumbers(message) ==
    {message.fields[i].number : i \in 1..Len(message.fields)}

\* The findings, as the validator words them.
DuplicateFieldNumber(number, message_name) ==
    ValidationError("Duplicate field number {} in message '{}'",
                    <<U32ToString(number), message_name>>)

DuplicateOneofFieldNumber(number, oneof_name, message_name) ==
    ValidationError("Duplicate field number {} in oneof '{}' of message '{}'",
                    <<U32ToString(number), oneof_name, message_name>>)

ZeroFieldNumber(field_name, message_name) ==
    ValidationError("Field number cannot be 0 in field '{}' of message '{}'",
                    <<field_name, message_name>>)

ReservedFieldNumberRange(number, field_name, message_name) ==
    ValidationError(
        "Field number {} is reserved for protocol buffer implementation in field '{}' of message '{}'",
        <<U32ToString(number), field_name, message_name>>)

FieldNumberFormats ==
    { "Duplicate field number {} in message '{}'",
      "Duplicate field number {} in oneof '{}' of message '{}'",
      "Field number cannot be 0 in field '{}' of message '{}'",
      "Field number {} is reserved for protocol buffer implementation in field '{}' of message '{}'" }

\* The findings of a list that report a duplicate field number.
RECURSIVE DuplicateFindings(_)
DuplicateFindings(list) ==
    IF list = <<>> THEN <<>>
    ELSE IF Head(list).message.format \in
              { "Duplicate field number {} in message '{}'",
                "Duplicate field number {} in oneof '{}' of message '{}'" }
    THEN <<Head(list)>> \o DuplicateFindings(Tail(list))
    ELSE DuplicateFindings(Tail(list))

\* 19000 <= number <= 19999, on the two halves of the number.
Reserved(number) ==
    number.hi = 0 /\ number.lo >= 19000 /\ number.lo <= 19999

(***************************************************************************)
(* C1.  Any lex or parse error anywhere in the text, a lex error on the     *)
(* very first token included, makes parse_proto return an error: a text in  *)
(* which the lexer, run token by token from the start, meets an error       *)
(* never parses to a ProtoFile.                                            *)
(***************************************************************************)
\* The error the lexer meets when the text is cut into tokens up to its end.
RECURSIVE LexError(_, _)
LexError(input, position) ==
    LET r == next_token(input, position)
    IN  IF r.err # NoError THEN r.err
        ELSE IF r.tok = Eof THEN NoError
        ELSE LexError(input, r.pos)

C1_LexErrorIsFatal ==
    (pc # "start" /\ LexError(content, 0) # NoError) => parsed.err # NoError

(***************************************************************************)
(* C2.  When parse_proto fails on a text, compute_diagnostics returns       *)
(* exactly one diagnostic, the parse error, and no validation finding; when *)
(* parse_proto succeeds, it returns one diagnostic per finding of           *)
(* validate_proto, in the validator's order, and no parse-error diagnostic. *)
(***************************************************************************)
C2_DiagnosticsFollowParse ==
    pc = "done" =>
        IF parsed.err # NoError
        THEN /\ Len(diagnostics) = 1
             /\ diagnostics[1].message =
                    [format |-> "Parse error: {}", args |-> <<parsed.err>>]
        ELSE /\ Len(diagnostics) = Len(errors)
             /\ \A i \in 1..Len(errors) :
                    diagnostics[i].message = errors[i].message
             /\ \A i \in 1..Len(diagnostics) :
                    diagnostics[i].message.format # "Parse error: {}"

\* A text of declarations that fails to parse has got its one diagnostic.
C2_Witness ==
    /\ pc = "done"
    /\ parsed.err.type = "Expected"
    /\ Len(content) > MaxLen
    /\ Len(diagnostics) = 1

(***************************************************************************)
(* C3.  parse_proto is total: on every text it ends with a ProtoFile or a   *)
(* ParseError, because every iteration of every parser loop consumes a      *)
(* token or returns an error; no parse ends as Diverges, the outcome of an  *)
(* iteration that would be run again in the same state.                     *)
(***************************************************************************)
C3_ParseTerminates ==
    /\ parsed.err # Diverges
    /\ parsed.err.type \in {"None", "UnexpectedToken", "Expected",
                            "UnterminatedString", "InvalidNumber"}

\* A parse that went round the top-level loop and a body loop and succeeded.
C3_Witness ==
    /\ pc = "file"
    /\ Len(parsed.file.statements) >= 2
    /\ \E i \in 1..Len(parsed.file.statements) :
           /\ parsed.file.statements[i].type = "Message"
           /\ parsed.file.statements[i].message.fields # <<>>

(***************************************************************************)
(* C4.  parse_proto on the empty text, and on any text without a token      *)
(* (only whitespace and complete comments), succeeds with syntax = None,    *)
(* edition = None and no statements.                                        *)
(***************************************************************************)
\* The text is, from character i on, whitespace, line comments (to the end
\* of the line or of the text) and block comments closed by */.
RECURSIVE OnlyBlank(_, _)
OnlyBlank(text, i) ==
    LET closings == {j \in (i + 2)..(Len(text) - 1) :
                        text[j] = "*" /\ text[j + 1] = "/"}
        newlines == {j \in (i + 2)..Len(text) : text[j] = "\n"}
        least(S) == CHOOSE j \in S : \A k \in S : j <= k
    IN  IF i > Len(text) THEN TRUE
        ELSE IF text[i] \in {" ", "\t", "\n", "\r"} THEN OnlyBlank(text, i + 1)
        ELSE IF i < Len(text) /\ text[i] = "/" /\ text[i + 1] = "/"
        THEN newlines = {} \/ OnlyBlank(text, least(newlines) + 1)
        ELSE IF i < Len(text) /\ text[i] = "/" /\ text[i + 1] = "*"
        THEN closings # {} /\ OnlyBlank(text, least(closings) + 2)
        ELSE FALSE

C4_BlankTextIsEmptyFile ==
    (pc # "start" /\ OnlyBlank(content, 1)) =>
        parsed = [err |-> NoError,
                  file |-> [syntax |-> [some |-> FALSE, v |-> <<>>],
                            edition |-> [some |-> FALSE, v |-> <<>>],
                            statements |-> <<>>]]

\* A text of a line comment with a word in it has been parsed.
C4_Witness ==
    /\ pc # "start"
    /\ OnlyBlank(content, 1)
    /\ Len(content) >= 4
    /\ content[1] = "/" /\ content[2] = "/" /\ content[4] = "a"

(***************************************************************************)
(* C5.  For every message, validate_proto emits one 'Duplicate field        *)
(* number' finding, naming the number and the message, for each direct      *)
(* field whose number is that of an earlier direct field of the same        *)
(* message, and the first field that uses a number is not flagged: the      *)
(* findings naming a number and a message name are as many as the direct    *)
(* fields that repeat the number in the messages of that name.              *)
(***************************************************************************)
\* The direct fields, (k, i) for field i of the k-th message, that repeat the
\* number of an earlier direct field of their message.
DirectRepeats(messages, message_name, number) ==
    UNION { { <<k, i>> : i \in
                { i \in 1..Len(messages[k].fields) :
                    /\ messages[k].name = message_name
                    /\ messages[k].fields[i].number = number
                    /\ \E j \in 1..(i - 1) :
                           messages[k].fields[j].number = number } } :
            k \in 1..Len(messages) }

C5_DuplicatePerRepeat ==
    pc = "validated" =>
        \A m \in Range(AllMessages(proto_file)) :
            \A number \in DirectNumbers(m) :
                Occurrences(errors, DuplicateFieldNumber(number, m.name)) =
                    Cardinality(DirectRepeats(AllMessages(proto_file),
                                              m.name, number))

(***************************************************************************)
(* C6.  A message whose own field numbers, of direct fields and oneof       *)
(* fields, are pairwise distinct, non-zero and outside [19000,19999] yields *)
(* no duplicate, zero or reserved-range finding, whatever other messages    *)
(* the file has, same bare name included: a file all of whose messages are  *)
(* such has none of these findings.                                         *)
(***************************************************************************)
NumbersOf(message) ==
    [i \in 1..Len(message.fields) |-> message.fields[i].number]
    \o [i \in 1..Len(OneofFields(message)) |->
           OneofFields(message)[i].field.number]

Clean(message) ==
    LET numbers == NumbersOf(message)
    IN  /\ \A i, j \in 1..Len(numbers) : i # j => numbers[i] # numbers[j]
        /\ \A i \in 1..Len(numbers) :
               numbers[i] # [hi |-> 0, lo |-> 0] /\ ~Reserved(numbers[i])

C6_CleanMessagesNoFinding ==
    (pc = "validated" /\ \A m \in Range(AllMessages(proto_file)) : Clean(m)) =>
        \A i \in 1..Len(errors) :
            errors[i].message.format \notin FieldNumberFormats

(***************************************************************************)
(* C7.  Every field declared with number 0, a direct field of a message or  *)
(* a field inside a oneof, yields a 'field number cannot be 0' finding,     *)
(* whatever the other fields of the message are.                            *)
(***************************************************************************)
C7_ZeroAlwaysFlagged ==
    pc = "validated" =>
        \A m \in Range(AllMessages(proto_file)) :
            /\ \A i \in 1..Len(m.fields) :
                   m.fields[i].number = [hi |-> 0, lo |-> 0] =>
                       ZeroFieldNumber(m.fields[i].name, m.name) \in Range(errors)
            /\ \A i \in 1..Len(OneofFields(m)) :
                   OneofFields(m)[i].field.number = [hi |-> 0, lo |-> 0] =>
                       ZeroFieldNumber(OneofFields(m)[i].field.name, m.name)
                           \in Range(errors)

(***************************************************************************)
(* C8.  For a direct field of a message with number n, validate_proto       *)
(* emits the reserved-range finding if and only if 19000 <= n <= 19999:     *)
(* 19000, 19500 and 19999 are flagged, 18999 and 20000 are not.  The        *)
(* findings naming a number, a field and a message are as many as the       *)
(* direct fields of that number and name in the messages of that name when  *)
(* the number is in the range, and none otherwise; every reserved-range     *)
(* finding names such a field.                                              *)
(***************************************************************************)
DirectFields(messages, message_name, field_name, number) ==
    UNION { { <<k, i>> : i \in
                { i \in 1..Len(messages[k].fields) :
                    /\ messages[k].name = message_name
                    /\ messages[k].fields[i].name = field_name
                    /\ messages[k].fields[i].number = number } } :
            k \in 1..Len(messages) }

C8_ReservedRangeExact ==
    pc = "validated" =>
        LET all == AllMessages(proto_file)
        IN  /\ \A m \in Range(all) :
                   \A f \in Range(m.fields) :
                       Occurrences(errors,
                           ReservedFieldNumberRange(f.number, f.name, m.name)) =
                       IF Reserved(f.number)
                       THEN Cardinality(DirectFields(all, m.name, f.name,
                                                     f.number))
                       ELSE 0
            /\ \A e \in Range(errors) :
                   e.message.format =
                       "Field number {} is reserved for protocol buffer implementation in field '{}' of message '{}'"
                   => \E m \in Range(all) :
                          \E f \in Range(m.fields) :
                              /\ Reserved(f.number)
                              /\ e = ReservedFieldNumberRange(f.number, f.name,
                                                              m.name)

\* A message with the fields 19999 and 20000 has been validated and has the
\* one finding of 19999.
C8_Witness ==
    /\ pc = "validated"
    /\ \E m \in Range(AllMessages(proto_file)) :
           /\ Len(m.fields) = 2
           /\ m.fields[1].number = [hi |-> 0, lo |-> 19999]
           /\ m.fields[2].number = [hi |-> 0, lo |-> 20000]
    /\ Len(errors) = 1

(***************************************************************************)
(* C9.  Oneof fields share the number namespace of their message: a oneof   *)
(* field whose number is that of a direct field of the same message, or of  *)
(* an earlier field of any oneof of the same message, yields one duplicate  *)
(* finding per such repeat.  The findings naming a number, a oneof and a    *)
(* message are at least as many as such repeats in the oneofs and messages  *)
(* of those names, and exactly as many in a file whose messages all have    *)
(* different names.                                                         *)
(***************************************************************************)
\* The oneof fields, (k, i) for the i-th oneof field of the k-th message, that
\* repeat the number of a direct field or of an earlier oneof field.
OneofRepeatsIn(message, oneof_name, number) ==
    LET fields == OneofFields(message)
    IN  { i \in 1..Len(fields) :
            /\ fields[i].oneof = oneof_name
            /\ fields[i].field.number = number
            /\ \/ number \in DirectNumbers(message)
               \/ \E j \in 1..(i - 1) : fields[j].field.number = number }

OneofRepeats(messages, message_name, oneof_name, number) ==
    UNION { { <<k, i>> : i \in IF messages[k].name = message_name
                                THEN OneofRepeatsIn(messages[k], oneof_name, number)
                                ELSE {} } :
            k \in 1..Len(messages) }

DistinctNames(messages) ==
    \A i, j \in 1..Len(messages) : i # j => messages[i].name # messages[j].name

C9_OneofSharesNamespace ==
    pc = "validated" =>
        LET all == AllMessages(proto_file)
            distinct == DistinctNames(all)
        IN  \A m \in Range(all) :
                \A of \in Range(OneofFields(m)) :
                    LET found == Occurrences(errors,
                                     DuplicateOneofFieldNumber(of.field.number,
                                                               of.oneof, m.name))
                        repeats == Cardinality(OneofRepeats(all, m.name,
                                       of.oneof, of.field.number))
                    IN  /\ found >= repeats
                        /\ distinct => found = repeats

\* message M { oneof o1 { t e = 1; } t a = 1; } has been validated and has
\* exactly one finding.
C9_Witness ==
    /\ pc = "validated"
    /\ proto_file =
           MakeFile(<<MakeMessage(<<"M">>, MakeFields(1, <<U32(1)>>),
                                  MakeOneofs(<<<<U32(1)>>>>), <<>>)>>)
    /\ errors = <<DuplicateOneofFieldNumber(U32(1), <<"o", "1">>, <<"M">>)>>

(***************************************************************************)
(* C10.  Two sibling top-level messages with different names, each using    *)
(* field number 1 internally, never cause a duplicate finding in one        *)
(* another when the names of their nested types differ: the duplicate       *)
(* findings of the file are those of the first message validated alone,     *)
(* followed by those of the second validated alone.                         *)
(***************************************************************************)
NestedNames(message) ==
    {message.nested_messages[i].name : i \in 1..Len(message.nested_messages)}

C10_SiblingsIndependent ==
    ( /\ pc = "validated"
      /\ Len(TopLevel(proto_file)) = 2
      /\ TopLevel(proto_file)[1].name # TopLevel(proto_file)[2].name
      /\ NestedNames(TopLevel(proto_file)[1])
             \cap NestedNames(TopLevel(proto_file)[2]) = {} ) =>
        DuplicateFindings(errors) =
            DuplicateFindings(validate_proto(MakeFile(<<TopLevel(proto_file)[1]>>)))
            \o DuplicateFindings(validate_proto(MakeFile(<<TopLevel(proto_file)[2]>>)))


(***************************************************************************)
(* Enums.                                                                  *)
(***************************************************************************)
\* The enums declared at the top level of a list of statements, in order.
RECURSIVE TopLevelEnums(_)
TopLevelEnums(statements) ==
    IF statements = <<>> THEN <<>>
    ELSE (IF Head(statements).type = "Enum"
          THEN <<Head(statements).enum>> ELSE <<>>)
         \o TopLevelEnums(Tail(statements))

\* The enums nested directly in the messages of a list.
RECURSIVE NestedEnums(_)
NestedEnums(messages) ==
    IF messages = <<>> THEN <<>>
    ELSE Head(messages).nested_enums \o NestedEnums(Tail(messages))

\* Every enum declaration of the file, top-level or nested at any depth.
AllEnums(file) ==
    TopLevelEnums(file.statements) \o NestedEnums(AllMessages(file))

MissingZeroValue(name) ==
    ValidationError("Enum '{}' must have a zero value", <<name>>)

HasZero(enum_def) ==
    \E i \in 1..Len(enum_def.values) : enum_def.values[i].number = 0

NeedsZero(enum_def) == enum_def.values # <<>> /\ ~HasZero(enum_def)

\* C11: an enum declaration gets the finding "Enum '{}' must have a zero
\* value" if and only if it has at least one value and none of them is 0:
\* the findings that name an enum are as many as the declarations of that
\* name that have values but no 0 (none for an empty enum), and every such
\* finding names a declared enum.
C11_ZeroValueIffNonEmptyWithoutZero ==
    pc = "validated" =>
        LET all == AllEnums(proto_file)
        IN  /\ \A e \in Range(all) :
                   Occurrences(errors, MissingZeroValue(e.name)) =
                       Cardinality({i \in 1..Len(all) :
                                      /\ all[i].name = e.name
                                      /\ NeedsZero(all[i])})
            /\ \A i \in 1..Len(errors) :
                   errors[i].message.format = "Enum '{}' must have a zero value"
                       => \E e \in Range(all) :
                              /\ NeedsZero(e)
                              /\ errors[i] = MissingZeroValue(e.name)

\* A validated file with an empty enum and an enum that has values but no 0:
\* only the second is flagged.
C11_Witness ==
    /\ pc = "validated"
    /\ \E e \in Range(AllEnums(proto_file)) :
           /\ e.values = <<>>
           /\ Occurrences(errors, MissingZeroValue(e.name)) = 0
    /\ \E e \in Range(AllEnums(proto_file)) :
           /\ NeedsZero(e)
           /\ Occurrences(errors, MissingZeroValue(e.name)) = 1


DuplicateEnumValue(number, name) ==
    ValidationError("Duplicate enum value {} in enum '{}'",
                    <<I32ToString(number), name>>)

\* The values numbered `number` that follow a value of the same number in
\* their own declaration, over the declarations named `name`.
EnumRepeats(all, name, number) ==
    Cardinality(
        { p \in UNION {{<<k, i>> : i \in 1..Len(all[k].values)} :
                          k \in 1..Len(all)} :
            LET values == all[p[1]].values
            IN  /\ all[p[1]].name = name
                /\ values[p[2]].number = number
                /\ \E j \in 1..(p[2] - 1) : values[j].number = number })

\* C12: a "Duplicate enum value" finding is produced exactly when an earlier
\* value of the same enum declaration has the same number: the findings that
\* name (number, enum) are as many as the values that repeat a number of
\* their own declaration, whatever other declarations, of the same bare name
\* or not, hold.
C12_DuplicateValueWithinDeclaration ==
    pc = "validated" =>
        LET all == AllEnums(proto_file)
        IN  \A e \in Range(all) : \A i \in 1..Len(e.values) :
                Occurrences(errors, DuplicateEnumValue(e.values[i].number, e.name))
                    = EnumRepeats(all, e.name, e.values[i].number)


(***************************************************************************)
(* Services.                                                               *)
(***************************************************************************)
\* The services of a list of statements, in order.
RECURSIVE Services(_)
Services(statements) ==
    IF statements = <<>> THEN <<>>
    ELSE (IF Head(statements).type = "Service"
          THEN <<Head(statements).service>> ELSE <<>>)
         \o Services(Tail(statements))

DuplicateMethodName(method, service) ==
    ValidationError("Duplicate method name '{}' in service '{}'",
                    <<method, service>>)

MethodNames(service) == {service.methods[i].name : i \in 1..Len(service.methods)}

\* The rpcs of a service whose name occurred earlier in that service.
LaterMethods(service, name) ==
    {i \in 1..Len(service.methods) :
        /\ service.methods[i].name = name
        /\ \E j \in 1..(i - 1) : service.methods[j].name = name}

RECURSIVE SumOver(_, _)
SumOver(f, S) ==
    IF S = {} THEN 0
    ELSE LET x == CHOOSE y \in S : TRUE IN f[x] + SumOver(f, S \ {x})

\* C13: within one service every rpc whose name occurred earlier in that
\* service gets one "Duplicate method name" finding and the first occurrence
\* none, so the findings of a service are its methods minus its distinct
\* method names; the rpcs of different services never interact. The findings
\* that name (method, service) are as many as the later occurrences of the
\* method over the services of that name, and the findings of the file are
\* the sum over its services of methods minus distinct names.
C13_DuplicateMethodPerService ==
    pc = "validated" =>
        LET services == Services(proto_file.statements)
            later(name, service) ==
                SumOver([k \in 1..Len(services) |->
                            IF services[k].name = service
                            THEN Cardinality(LaterMethods(services[k], name))
                            ELSE 0],
                        1..Len(services))
            surplus == SumOver([k \in 1..Len(services) |->
                                   Len(services[k].methods)
                                       - Cardinality(MethodNames(services[k]))],
                               1..Len(services))
        IN  /\ \A k \in 1..Len(services) : \A name \in MethodNames(services[k]) :
                   Occurrences(errors, DuplicateMethodName(name, services[k].name))
                       = later(name, services[k].name)
            /\ Cardinality({i \in 1..Len(errors) :
                               errors[i].message.format =
                                   "Duplicate method name '{}' in service '{}'"})
                   = surplus

\* Two services that both declare F: the first declares it once and the
\* second three times, and the file has exactly two findings, both for the
\* second service.
C13_Witness ==
    /\ pc = "validated"
    /\ Len(Services(proto_file.statements)) = 2
    /\ LET services == Services(proto_file.statements)
       IN  /\ services[1].name # services[2].name
           /\ Len(services[1].methods) = 1
           /\ Len(services[2].methods) = 3
           /\ MethodNames(services[1]) = MethodNames(services[2])
           /\ Len(errors) = 2
           /\ \A i \in 1..2 :
                  errors[i] = DuplicateMethodName(services[2].methods[1].name,
                                                  services[2].name)


(***************************************************************************)
(* The syntax and edition declarations.                                    *)
(***************************************************************************)
UnsupportedEdition(edition) ==
    ValidationError("Unsupported edition '{}'. Only edition 2023 is supported.",
                    <<edition>>)

InvalidSyntax(syntax) ==
    ValidationError("Invalid syntax '{}'. Must be 'proto2' or 'proto3'.",
                    <<syntax>>)

\* The findings of a list whose message has the given format.
WithFormat(list, format) ==
    {i \in 1..Len(list) : list[i].message.format = format}

EditionRejected(file) ==
    file.edition.some /\ file.edition.v # <<"2", "0", "2", "3">>

SyntaxRejected(file) ==
    /\ file.syntax.some
    /\ file.syntax.v \notin { <<"p", "r", "o", "t", "o", "2">>,
                              <<"p", "r", "o", "t", "o", "3">> }

\* C14: the unsupported-edition finding is produced if and only if an edition
\* is declared and it is not exactly "2023", and the invalid-syntax finding if
\* and only if a syntax is declared and it is neither "proto2" nor "proto3";
\* a file that declares neither gets neither. When produced, the finding is
\* single and quotes the declared string.
C14_DeclarationsGated ==
    pc = "validated" =>
        /\ WithFormat(errors, UnsupportedEdition(<<>>).message.format) =
               {i \in 1..Len(errors) :
                   /\ EditionRejected(proto_file)
                   /\ errors[i] = UnsupportedEdition(proto_file.edition.v)}
        /\ Cardinality(WithFormat(errors, UnsupportedEdition(<<>>).message.format))
               = IF EditionRejected(proto_file) THEN 1 ELSE 0
        /\ WithFormat(errors, InvalidSyntax(<<>>).message.format) =
               {i \in 1..Len(errors) :
                   /\ SyntaxRejected(proto_file)
                   /\ errors[i] = InvalidSyntax(proto_file.syntax.v)}
        /\ Cardinality(WithFormat(errors, InvalidSyntax(<<>>).message.format))
               = IF SyntaxRejected(proto_file) THEN 1 ELSE 0

\* A validated file that declares syntax "proto2" and an edition other than
\* "2023": the only finding is the unsupported edition.
C14_Witness ==
    /\ pc = "validated"
    /\ proto_file.syntax = Some(<<"p", "r", "o", "t", "o", "2">>)
    /\ EditionRejected(proto_file)
    /\ errors = <<UnsupportedEdition(proto_file.edition.v)>>


\* The value tokens that are not string literals, Eof for the declaration
\* that ends the text after the equals sign.
NonStringValues ==
    {value \in DeclaredValues : value.token.kind # "StringLiteral"}
    \cup {[text |-> <<>>, token |-> Eof]}

\* C15: a syntax or edition declaration whose value token is not a string
\* literal (syntax = proto3;) makes parse_proto fail with
\* Expected { expected: "string literal", found: the offending token }: no
\* ProtoFile reaches validate_proto, so no validation finding is produced,
\* and the only diagnostic is the parse error.
C15_UnquotedDeclarationFails ==
    \A before \in {<<>>, ZeroFieldMessage} :
    \A keyword \in {KwSyntax, KwEdition} :
    \A value \in NonStringValues :
    \A after \in Continuations :
        (/\ pc # "start"
         /\ value.token = Eof => after = <<>>
         /\ content = Declaration(before, keyword, value.text, after))
        => /\ parsed.err = Expected("string literal", value.token)
           /\ pc \in {"failed", "done"}
           /\ errors = <<>>
           /\ pc = "done" =>
                  diagnostics =
                      <<Diagnostic([format |-> "Parse error: {}",
                                    args |-> <<parsed.err>>], 0, 0)>>

\* The text "message M{a b=0;}syntax = proto3;" has been parsed and its
\* diagnostics computed: the parse failed on the identifier proto3 and the
\* field numbered 0 was never reported.
C15_Witness ==
    /\ pc = "done"
    /\ content = Declaration(ZeroFieldMessage, KwSyntax,
                             <<"p", "r", "o", "t", "o", "3">>, <<";">>)
    /\ parsed.err = Expected("string literal",
                             TokV("Identifier", <<"p", "r", "o", "t", "o", "3">>))
    /\ errors = <<>>
    /\ Len(diagnostics) = 1


Alone(statement) == validate_proto(MakeProtoFile(None, None, <<statement>>))

MessageAlone(message) == Alone([type |-> "Message", message |-> message])

EnumAlone(enum_def) == Alone([type |-> "Enum", enum |-> enum_def])

\* Every finding of every part occurs in `whole` at least as many times as in
\* all the parts together.
Covers(whole, parts) ==
    \A k \in 1..Len(parts) : \A e \in Range(parts[k]) :
        Occurrences(whole, e) >=
            SumOver([n \in 1..Len(parts) |-> Occurrences(parts[n], e)],
                    1..Len(parts))

\* The findings of the nodes directly under a message, each validated alone:
\* every direct field as the only field of a message of the same name, every
\* nested message and every nested enum.
PartsOfMessage(message) ==
    [i \in 1..Len(message.fields) |->
        MessageAlone([message EXCEPT !.fields = <<message.fields[i]>>,
                                     !.oneofs = <<>>,
                                     !.nested_messages = <<>>,
                                     !.nested_enums = <<>>])]
    \o [i \in 1..Len(message.nested_messages) |->
           MessageAlone(message.nested_messages[i])]
    \o [i \in 1..Len(message.nested_enums) |->
           EnumAlone(message.nested_enums[i])]

\* The findings with the format of list.
Only(list, format) == SelectSeq(list, LAMBDA e : e.message.format = format)

Publications(t) == {k \in 1..Len(published) : published[k].task = t}

\* A did_open, or a did_change with at least one content change.
CarriesText(t) ==
    /\ t <= Len(tasks)
    /\ \/ tasks[t].method = "did_open"
       \/ tasks[t].method = "did_change" /\ tasks[t].texts # <<>>

\* C18: every did_open notification, and every did_change notification with
\* at least one content change, leads to exactly one publish_diagnostics: it
\* is never published twice, what is published is for the notification's URI
\* and is the whole of compute_diagnostics of the new text (the first content
\* change), whatever was published for the document before, and it is
\* eventually published.  No other notification publishes anything.
C18_OnePublicationPerText ==
    /\ [](\A t \in 1..Len(tasks) :
             /\ Cardinality(Publications(t)) <= 1
             /\ \A k \in Publications(t) :
                    /\ CarriesText(t)
                    /\ published[k].uri = tasks[t].uri
                    /\ published[k].diagnostics =
                           compute_diagnostics(tasks[t].texts[1]))
    /\ \A t \in 1..MaxNotifications :
           CarriesText(t) ~> (Cardinality(Publications(t)) = 1)

\* A did_change with two different content changes has been handled after a
\* did_open of the same URI with another text than its first change: each
\* has its one publication.
C18_Witness ==
    \E o, c \in 1..Len(tasks) :
        /\ o < c
        /\ tasks[o].method = "did_open"
        /\ tasks[c].method = "did_change"
        /\ tasks[o].uri = tasks[c].uri
        /\ Len(tasks[c].texts) = 2
        /\ tasks[c].texts[1] # tasks[o].texts[1]
        /\ tasks[o].pc = "done"
        /\ tasks[c].pc = "done"
        /\ Cardinality(Publications(o)) = 1
        /\ Cardinality(Publications(c)) = 1
        /\ published[Len(published)].diagnostics # published[1].diagnostics

(***************************************************************************)
(* C19.  Every token of a text that begins with a line break, the end of   *)
(* the text included, starts on line 1 or below.  When the parse of such a *)
(* text fails, the diagnostic built from the failure is positioned at the  *)
(* offending token, so not on line 0.                                      *)
(***************************************************************************)
C19_FailurePositionedAtToken ==
    (/\ pc = "done"
     /\ parsed.err # NoError
     /\ content # <<>>
     /\ content[1] = "\n")
        => \A i \in 1..Len(diagnostics) : diagnostics[i].line >= 1

(***************************************************************************)
(* C20.  The line feeds of the text, the line of the cursor, the text      *)
(* before the cursor on it, and the cursor line being inside an open       *)
(* message body: a line up to the cursor line starts, after its            *)
(* indentation, with "message ", and the text up to the end of the cursor  *)
(* line has more opening than closing braces.                              *)
(***************************************************************************)
Feeds == {i \in 1..Len(content) : content[i] = "\n"}

LineOf(i) == Cardinality({j \in Feeds : j < i})

CursorLine ==
    LET on == {i \in 1..Len(content) : i \notin Feeds /\ LineOf(i) = cursor.line}
    IN  IF on = {} THEN <<>>
        ELSE SubSeq(content, CHOOSE i \in on : \A j \in on : i <= j,
                             CHOOSE i \in on : \A j \in on : j <= i)

BeforeCursor ==
    SubSeq(CursorLine, 1,
           IF cursor.character < Len(CursorLine)
           THEN cursor.character ELSE Len(CursorLine))

BlankBefore == \A i \in 1..Len(BeforeCursor) : BeforeCursor[i] \in Whitespace

MessageSeen ==
    \E i \in 1..Len(content) :
        /\ LineOf(i) <= cursor.line
        /\ i + 7 <= Len(content)
        /\ SubSeq(content, i, i + 7) = KwMessage \o <<" ">>
        /\ \A j \in 1..(i - 1) : LineOf(j) = LineOf(i) => content[j] \in Whitespace

BraceDepth ==
    Cardinality({i \in 1..Len(content) :
                     LineOf(i) <= cursor.line /\ content[i] = "{"})
        - Cardinality({i \in 1..Len(content) :
                           LineOf(i) <= cursor.line /\ content[i] = "}"})

InsideMessage == MessageSeen /\ BraceDepth > 0

\* C20: for a cursor on a line of the text, compute_completions returns; it
\* returns the 18 field completions when the cursor line is inside an open
\* message body and the text before the cursor is blank or ends in
\* whitespace, the 8 top-level keywords when the cursor is not inside a
\* message and the text before it is blank, and never labels of both.
C20_CompletionsFollowCursorContext ==
    (pc # "start" /\ cursor.line <= Cardinality(Feeds))
        => /\ pc = "completed"
           /\ (/\ InsideMessage
               /\ \/ BlankBefore
                  \/ BeforeCursor[Len(BeforeCursor)] \in Whitespace)
                  => completions = FieldCompletions
           /\ (~InsideMessage /\ BlankBefore)
                  => completions = KeywordCompletions
           /\ \/ Range(completions) \cap Range(FieldCompletions) = {}
              \/ Range(completions) \cap Range(KeywordCompletions) = {}

(***************************************************************************)
(* C21.  A field inside a oneof whose number lies in [19000,19999] yields   *)
(* the reserved-range finding of its number, its name and its message, as   *)
(* a direct field with that number does.                                    *)
(***************************************************************************)
C21_OneofReservedRangeFlagged ==
    pc = "validated" =>
        \A m \in Range(AllMessages(proto_file)) :
            \A i \in 1..Len(OneofFields(m)) :
                Reserved(OneofFields(m)[i].field.number) =>
                    ReservedFieldNumberRange(OneofFields(m)[i].field.number,
                                             OneofFields(m)[i].field.name,
                                             m.name) \in Range(errors)

(***************************************************************************)
(* C22.  A text that begins with the opening of a block comment and has no  *)
(* closing after it ends inside the comment: the first next_token call on   *)
(* it returns Eof, whatever the characters of the comment are.              *)
(***************************************************************************)
C22_UnterminatedCommentIsEof ==
    (/\ Len(log) >= 1
     /\ Len(lexer.input) >= 2
     /\ lexer.input[1] = "/"
     /\ lexer.input[2] = "*"
     /\ \A i \in 3..(Len(lexer.input) - 1) :
            ~(lexer.input[i] = "*" /\ lexer.input[i + 1] = "/"))
        => log[1].returned.err = NoError /\ log[1].returned.tok = Eof

(***************************************************************************)
(* C23.  Across the next_token calls made on a Lexer: every call starts     *)
(* where the call before it ended and ends no earlier than it started and   *)
(* no later than the end of the input; a call that returns a token other    *)
(* than Eof ends at least one character later than it started; and after a  *)
(* call that returned Eof every call returns Eof.                           *)
(***************************************************************************)
ReturnedEof(k) ==
    log[k].returned.err = NoError /\ log[k].returned.tok = Eof

C23_CursorMovesForwardInBounds ==
    pc = "lexing" =>
        /\ lexer.position <= Len(lexer.input)
        /\ \A k \in 1..Len(log) :
               /\ log[k].position =
                      IF k = 1 THEN 0 ELSE log[k - 1].returned.pos
               /\ log[k].position <= log[k].returned.pos
               /\ log[k].returned.pos <= Len(lexer.input)
               /\ (log[k].returned.err = NoError /\ ~ReturnedEof(k))
                      => log[k].returned.pos >= log[k].position + 1
               /\ \A j \in 1..(k - 1) : ReturnedEof(j) => ReturnedEof(k)
        /\ Len(log) > 0 => lexer.position = log[Len(log)].returned.pos

\* Two tokens, an identifier after whitespace and a symbol, have been
\* returned and then Eof twice.
C23_Witness ==
    /\ pc = "lexing"
    /\ Len(log) = 4
    /\ log[1].returned.tok.kind = "Identifier"
    /\ log[1].returned.pos > 1
    /\ log[2].returned.tok.kind = "Semicolon"
    /\ ReturnedEof(3)
    /\ ReturnedEof(4)

(***************************************************************************)
(* C24.  A message with one field that has one bracketed option parses,     *)
(* and the option map of the field has the option's name as its key,        *)
(* whether the name is a bare identifier, a parenthesized identifier or a   *)
(* parenthesized dotted identifier.                                         *)
(***************************************************************************)
C24_OptionNameForms ==
    \A name \in { <<"c">>, <<"(", "c", ")">>, <<"(", "c", ".", "d", ")">> } :
        (/\ pc # "start"
         /\ content = KwMessage
                          \o <<" ", "M", "{", "a", " ", "b", "=", "1", "[">>
                          \o name \o <<"=", "1", "]", ";", "}">>)
            => /\ parsed.err = NoError
               /\ Len(parsed.file.statements) = 1
               /\ DOMAIN parsed.file.statements[1].message.fields[1].options
                      = {name}

(***************************************************************************)
(* C25.  The number literal of the one field of a text, direct or in a      *)
(* oneof, with the u32 it denotes when it is a valid one: decimal ASCII     *)
(* digits only and a value of at most 4294967295.                           *)
(***************************************************************************)
FieldNumberLiterals ==
    { [text |-> <<"0">>, value |-> Some(U32(0))],
      [text |-> <<"0", "0", "7">>, value |-> Some(U32(7))],
      [text |-> <<"4", "2", "9", "4", "9", "6", "7", "2", "9", "5">>,
       value |-> Some([hi |-> Limb - 1, lo |-> Limb - 1])],
      [text |-> <<"4", "2", "9", "4", "9", "6", "7", "2", "9", "6">>,
       value |-> None],
      [text |-> <<"9", "9", "9", "9", "9", "9", "9", "9", "9", "9", "9">>,
       value |-> None],
      [text |-> <<"-", "1">>, value |-> None],
      [text |-> <<"-", "0">>, value |-> None],
      [text |-> <<"-">>, value |-> None],
      [text |-> <<"1", ".", "5">>, value |-> None],
      [text |-> <<"^2">>, value |-> None] }

FieldNumbered(literal) ==
    \/ content = KwMessage \o <<" ", "M", "{", "a", " ", "b", "=">>
                     \o literal \o <<";", "}">>
    \/ content = KwMessage \o <<" ", "M", "{">> \o KwOneof
                     \o <<" ", "o", "{", "a", " ", "b", "=">>
                     \o literal \o <<";", "}", "}">>

\* C25: a field whose number literal is not a valid u32 makes parse_proto
\* fail with InvalidNumber of the literal, a valid one gives the field its
\* value, and every field number of a returned ProtoFile is within u32.
C25_FieldNumberIsU32 ==
    pc # "start" =>
        /\ \A l \in FieldNumberLiterals :
               FieldNumbered(l.text) =>
                   IF l.value.some
                   THEN /\ parsed.err = NoError
                        /\ \A m \in Range(AllMessages(parsed.file)) :
                               \A n \in Range(NumbersOf(m)) : n = l.value.v
                   ELSE parsed.err = InvalidNumber(l.text)
        /\ parsed.err = NoError =>
               \A m \in Range(AllMessages(parsed.file)) :
                   \A n \in Range(NumbersOf(m)) :
                       n.hi \in 0..(Limb - 1) /\ n.lo \in 0..(Limb - 1)

\* 4294967296 has been refused as the number of a field of a oneof.
C25_Witness ==
    /\ pc = "failed"
    /\ FieldNumbered(<<"4", "2", "9", "4", "9", "6", "7", "2", "9", "6">>)
    /\ Len(content) > 30
    /\ parsed.err =
           InvalidNumber(<<"4", "2", "9", "4", "9", "6", "7", "2", "9", "6">>)

(***************************************************************************)
(* C26.  A text that ends in the middle of a declaration makes parse_proto  *)
(* return an error whose offending token is Eof; and no text makes it       *)
(* return UnexpectedEof or InvalidSyntax.                                   *)
(***************************************************************************)
C26_UnfinishedDeclarationFailsAtEof ==
    pc # "start" =>
        /\ content \in UnfinishedTexts =>
               /\ parsed.err.type \in {"UnexpectedToken", "Expected"}
               /\ parsed.err.found = Eof
        /\ parsed.err.type \notin {"UnexpectedEof", "InvalidSyntax"}

(***************************************************************************)
(* C27.  The handlers that hold the write guard of the store, the place of  *)
(* a handler's store call among the store calls and the place of its        *)
(* publication among the publications.                                      *)
(***************************************************************************)
Holders ==
    {t \in 1..Len(tasks) : tasks[t].pc \in {"locked", "publishing", "returning"}}

WriteOf(t) == {k \in 1..Len(log) : log[k].task = t}

AllDone == \A t \in 1..Len(tasks) : tasks[t].pc = "done"

\* C27: at most one handler holds the guard, from its store call until its
\* publication has completed; the publications for a URI come in the order
\* of the store calls of their handlers, each after its own store call; and
\* when all handlers have finished, the last publication for an open
\* document was computed from the content the store holds for it.
C27_PublicationsFollowWrites ==
    /\ Cardinality(Holders) <= 1
    /\ \A k \in 1..Len(published) : WriteOf(published[k].task) # {}
    /\ \A j, k \in 1..Len(published) :
           (j < k /\ published[j].uri = published[k].uri) =>
               \A w \in WriteOf(published[j].task) :
                   \A x \in WriteOf(published[k].task) : w < x
    /\ \A t \in 1..Len(tasks) :
           (tasks[t].pc = "publishing" /\ tasks[t].uri \in DOMAIN documents)
               => documents[tasks[t].uri].content = tasks[t].texts[1]
    /\ AllDone =>
           \A uri \in DOMAIN documents :
               LET for == {k \in 1..Len(published) : published[k].uri = uri}
                   last == CHOOSE k \in for : \A j \in for : j <= k
               IN  /\ for # {}
                   /\ tasks[published[last].task].texts[1] =
                          documents[uri].content
                   /\ published[last].diagnostics =
                          compute_diagnostics(documents[uri].content)

\* A did_change received before the did_open of its URI has been handled
\* after it: the store holds the text of the change, and so does the last
\* publication.
C27_Witness ==
    /\ Len(tasks) = 2
    /\ AllDone
    /\ tasks[1].method = "did_change"
    /\ tasks[2].method = "did_open"
    /\ tasks[1].uri = tasks[2].uri
    /\ tasks[1].texts # <<>>
    /\ tasks[1].texts[1] # tasks[2].texts[1]
    /\ Len(log) = 2
    /\ log[1].task = 2
    /\ tasks[1].uri \in DOMAIN documents
    /\ documents[tasks[1].uri].content = tasks[1].texts[1]
    /\ published[2].task = 1

(***************************************************************************)
(* C28.  A handler that has just published, and still holds the guard, has  *)
(* published for a document that is in the store, and the store holds for   *)
(* it the text the diagnostics were computed from.                          *)
(***************************************************************************)
C28_PublishedOnlyForOpenDocuments ==
    \A t \in 1..Len(tasks) :
        (tasks[t].pc = "returning" /\ Publications(t) # {}) =>
            /\ tasks[t].uri \in DOMAIN documents
            /\ documents[tasks[t].uri].content = tasks[t].texts[1]

(***************************************************************************)
(* C29: the store operations keep to their URI.  Whenever a handler makes  *)
(* its store call: get_document of every other URI returns what it         *)
(* returned before; after open_document get_document of the URI returns    *)
(* the content and version just opened; after update_document it returns   *)
(* the content and version just given if the URI was in the store, and the *)
(* store is unchanged if it was not; after close_document it returns None. *)
(* A step in which no handler makes a store call leaves the store as it    *)
(* is.  Step by step, get_document therefore returns the latest open or    *)
(* update since the URI was last opened, and None from a close on.         *)
(***************************************************************************)
Calling(t) == tasks[t].pc = "locked" /\ tasks'[t].pc # "locked"

C29_StoreFrame ==
    [][/\ \A t \in 1..Len(tasks) :
              Calling(t) =>
                  /\ \A other \in (DOMAIN documents \cup DOMAIN documents'
                                     \cup {"file:///u.proto",
                                           "file:///v.proto"})
                                    \ {tasks[t].uri} :
                         get_document(documents', other) =
                             get_document(documents, other)
                  /\ tasks[t].method = "did_open" =>
                         get_document(documents', tasks[t].uri) =
                             Some([content |-> tasks[t].texts[1],
                                   version |-> tasks[t].version])
                  /\ (tasks[t].method = "did_change"
                          /\ tasks[t].texts # <<>>) =>
                         IF get_document(documents, tasks[t].uri) = None
                         THEN documents' = documents
                         ELSE get_document(documents', tasks[t].uri) =
                                  Some([content |-> tasks[t].texts[1],
                                        version |-> tasks[t].version])
                  /\ (tasks[t].method = "did_change"
                          /\ tasks[t].texts = <<>>) =>
                         documents' = documents
                  /\ tasks[t].method = "did_close" =>
                         get_document(documents', tasks[t].uri) = None
       /\ (\A t \in 1..Len(tasks) : ~Calling(t)) => documents' = documents
      ]_vars

\* update_document has been called for a URI that was not in the store
\* while another document was, and that document is still as it was opened.
C29_Witness ==
    \E t \in 1..Len(tasks), o \in 1..Len(tasks) :
        /\ tasks[t].method = "did_change"
        /\ WriteOf(t) # {}
        /\ get_document(documents, tasks[t].uri) = None
        /\ tasks[o].method = "did_open"
        /\ tasks[o].uri # tasks[t].uri
        /\ WriteOf(o) # {}
        /\ get_document(documents, tasks[o].uri) =
               Some([content |-> tasks[o].texts[1],
                     version |-> tasks[o].version])

(***************************************************************************)
(* C30: compute_hover is total.  Whatever the text and the cursor, a line  *)
(* index past the last line and a character index greater than the length *)
(* of the line included, it returns a hover or None without an            *)
(* out-of-range access, and the word it extracted lies within the cursor's *)
(* line: 0 <= start <= end <= the number of characters of the line, and    *)
(* the word is the characters of the line from start to end.               *)
(***************************************************************************)
C30_HoverIsTotal ==
    /\ pc # "hover panicked"
    /\ (pc = "hovered" /\ hover.word # None) =>
           LET line == str_lines(content)[cursor.line + 1]
               word == hover.word.v
           IN  /\ 0 <= word.start
               /\ word.start <= word.end
               /\ word.end <= Len(line)
               /\ word.text = SubSeq(line, word.start + 1, word.end)
    /\ (pc = "hovered" /\ hover.word = None) =>
           /\ cursor.line >= Len(str_lines(content))
           /\ hover.hover = None

=============================================================================
